---- MODULE Spec2Model ----
(***************************************************************************)
(* Model of the retrieval-augmented answer pipeline of the document        *)
(* assistant: the resilient embedding and chat wrappers (one-way fallback  *)
(* latch), the vector store wrapper, the citation formatter, the RAG       *)
(* orchestrator, the document ingestor, the configuration and the model    *)
(* factory.  Text is modelled as a sequence of one-character strings, so   *)
(* that lower(), strip(), `in` and concatenation are computed.             *)
(*   Spec           the pipeline with its store, one caller                *)
(*   IngestSpec     the calls of the ingestor                              *)
(*   CitationsSpec  the calls of the citation formatter                    *)
(*   OfflineSpec    the vectors of the offline fallback embeddings         *)
(*   DemoSpec       the canned responder, alone and behind the chain       *)
(*   ConfigSpec     configuration, construction, then requests             *)
(*   ThreadsSpec    two callers sharing the wrappers and the store         *)
(***************************************************************************)
EXTENDS Integers, Sequences, FiniteSets, TLC

\* ------------------------------------------------------------------------
\* Python str operations
\* ------------------------------------------------------------------------

UpperChars ==
    <<"A","B","C","D","E","F","G","H","I","J","K","L","M",
      "N","O","P","Q","R","S","T","U","V","W","X","Y","Z">>

LowerChars ==
    <<"a","b","c","d","e","f","g","h","i","j","k","l","m",
      "n","o","p","q","r","s","t","u","v","w","x","y","z">>

\* str.lower() on one character
LowerChar(c) ==
    IF \E i \in 1..Len(UpperChars) : UpperChars[i] = c
    THEN LowerChars[CHOOSE i \in 1..Len(UpperChars) : UpperChars[i] = c]
    ELSE c

\* str.lower()
Lower(s) ==
    [i \in 1..Len(s) |-> LowerChar(s[i])]

\* the characters str.strip() removes
Whitespace ==
    {" ", "\n", "\t", "\r"}

\* str.strip()
Strip(s) ==
    LET keep == {i \in 1..Len(s) : s[i] \notin Whitespace}
    IN  IF keep = {} THEN <<>>
        ELSE LET first == CHOOSE i \in keep : \A j \in keep : i <= j
                 last  == CHOOSE i \in keep : \A j \in keep : j <= i
             IN  SubSeq(s, first, last)

\* `sub in s`
Contains(s, sub) ==
    \E i \in 1..(Len(s) - Len(sub) + 1) :
        \A j \in 1..Len(sub) : s[i + j - 1] = sub[j]

\* any(keyword in s for keyword in keywords)
AnyKeywordIn(keywords, s) ==
    \E n \in 1..Len(keywords) : Contains(s, keywords[n])

\* s.startswith(prefix)
StartsWith(s, prefix) ==
    /\ Len(prefix) <= Len(s)
    /\ SubSeq(s, 1, Len(prefix)) = prefix

\* ------------------------------------------------------------------------
\* Errors raised by the primary providers and by the storage engine
\* ------------------------------------------------------------------------

\* str(e) of errors the primary providers raise: 'Connection error.',
\* 'Request Timeout', 'Incorrect API key', 'Rate limit exceeded'
PrimaryErrors ==
    [MsgConnection |->
        <<"C","o","n","n","e","c","t","i","o","n"," ","e","r","r","o","r",".">>,
     MsgTimeoutUpper |->
        <<"R","e","q","u","e","s","t"," ","T","i","m","e","o","u","t">>,
     MsgApiKey |->
        <<"I","n","c","o","r","r","e","c","t"," ","A","P","I"," ","k","e","y">>,
     MsgRateLimit |->
        <<"R","a","t","e"," ","l","i","m","i","t"," ","e","x","c","e","e","d","e","d">>]

\* str(e) of the exceptions a collaborator raises in the model
ErrorMessages ==
    {PrimaryErrors.MsgConnection, PrimaryErrors.MsgTimeoutUpper,
     PrimaryErrors.MsgApiKey, PrimaryErrors.MsgRateLimit,
     \* 'Request timed out.', 'tiktoken load failed'
     <<"R","e","q","u","e","s","t"," ","t","i","m","e","d"," ","o","u","t",".">>,
     <<"t","i","k","t","o","k","e","n"," ","l","o","a","d"," ","f","a","i","l","e","d">>,
     \* 'Failed to resolve host', 'DNS lookup failed'
     <<"F","a","i","l","e","d"," ","t","o"," ","r","e","s","o","l","v","e"," ","h","o","s","t">>,
     <<"D","N","S"," ","l","o","o","k","u","p"," ","f","a","i","l","e","d">>}

\* outcome of one call of an external collaborator: it returns, or raises e
Returned ==
    [ok |-> TRUE, msg |-> <<>>, text |-> <<>>]

Raised(msg) ==
    [ok |-> FALSE, msg |-> msg, text |-> <<>>]

Outcomes ==
    {Returned} \cup {Raised(m) : m \in ErrorMessages}

\* the keyword list without 'timeout'
EMBEDDING_ERROR_KEYWORDS_NoTimeout ==
    <<
      <<"o","p","e","n","a","i","p","u","b","l","i","c",".","b","l","o","b",".","c","o","r","e",
        ".","w","i","n","d","o","w","s",".","n","e","t">>,
      <<"t","i","k","t","o","k","e","n">>,
      <<"c","l","1","0","0","k","_","b","a","s","e">>,
      <<"f","a","i","l","e","d"," ","t","o"," ","r","e","s","o","l","v","e">>,
      <<"c","o","n","n","e","c","t","i","o","n">>,
      <<"n","e","t","w","o","r","k">>
    >>

\* the keyword list of ResilientEmbeddings.embed_documents / embed_query
EMBEDDING_ERROR_KEYWORDS ==
    <<
      <<"o","p","e","n","a","i","p","u","b","l","i","c",".","b","l","o","b",".","c","o","r","e",
        ".","w","i","n","d","o","w","s",".","n","e","t">>,
      <<"t","i","k","t","o","k","e","n">>,
      <<"c","l","1","0","0","k","_","b","a","s","e">>,
      <<"f","a","i","l","e","d"," ","t","o"," ","r","e","s","o","l","v","e">>,
      <<"c","o","n","n","e","c","t","i","o","n">>,
      <<"t","i","m","e","o","u","t">>,
      <<"n","e","t","w","o","r","k">>
    >>

\* the keyword list without 'api key'
CHAT_ERROR_KEYWORDS_NoApiKey ==
    <<
      <<"a","p","i","_","k","e","y">>,
      <<"a","u","t","h","e","n","t","i","c","a","t","i","o","n">>,
      <<"u","n","a","u","t","h","o","r","i","z","e","d">>,
      <<"4","0","1">>,
      <<"c","o","n","n","e","c","t","i","o","n">>,
      <<"n","e","t","w","o","r","k">>,
      <<"t","i","m","e","o","u","t">>,
      <<"f","a","i","l","e","d"," ","t","o"," ","r","e","s","o","l","v","e">>,
      <<"d","n","s">>,
      <<"c","o","n","n","e","c","t","i","o","n"," ","e","r","r","o","r">>,
      <<"n","a","m","e"," ","r","e","s","o","l","u","t","i","o","n">>
    >>

\* the keyword list of ResilientChatModel._call
CHAT_ERROR_KEYWORDS ==
    <<
      <<"a","p","i"," ","k","e","y">>,
      <<"a","p","i","_","k","e","y">>,
      <<"a","u","t","h","e","n","t","i","c","a","t","i","o","n">>,
      <<"u","n","a","u","t","h","o","r","i","z","e","d">>,
      <<"4","0","1">>,
      <<"c","o","n","n","e","c","t","i","o","n">>,
      <<"n","e","t","w","o","r","k">>,
      <<"t","i","m","e","o","u","t">>,
      <<"f","a","i","l","e","d"," ","t","o"," ","r","e","s","o","l","v","e">>,
      <<"d","n","s">>,
      <<"c","o","n","n","e","c","t","i","o","n"," ","e","r","r","o","r">>,
      <<"n","a","m","e"," ","r","e","s","o","l","u","t","i","o","n">>
    >>

\* ------------------------------------------------------------------------
\* Embeddings: offline fallback and resilient wrapper
\* ------------------------------------------------------------------------

\* _hash_to_embedding stripping the text without lower-casing it
HashToEmbedding_CaseSensitive(text) ==
    [path |-> "offline", key |-> Strip(text)]

\* OfflineFallbackEmbeddings._hash_to_embedding: the text is lower-cased and
\* stripped, then hashed.  The digests are a function of the normalized text;
\* the vector is represented by the text the digests are taken of.
HashToEmbedding(text) ==
    [path |-> "offline", key |-> Strip(Lower(text))]

\* OfflineFallbackEmbeddings.embed_documents
OfflineEmbedDocuments(texts) ==
    [i \in 1..Len(texts) |-> HashToEmbedding(texts[i])]

\* OfflineFallbackEmbeddings.embed_query
OfflineEmbedQuery(text) ==
    HashToEmbedding(text)

\* the vector the primary embedding service returns for a text
PrimaryVector(text) ==
    [path |-> "primary", key |-> text]

\* primary.embed_documents, when it returns
PrimaryEmbedDocuments(texts) ==
    [i \in 1..Len(texts) |-> PrimaryVector(texts[i])]

\* primary.embed_query, when it returns
PrimaryEmbedQuery(text) ==
    PrimaryVector(text)

\* the except branch without its keyword test
IsEmbeddingNetworkError_AnyError(error_str) ==
    TRUE

\* the test of the except branch of embed_documents / embed_query
IsEmbeddingNetworkError(error_str) ==
    AnyKeywordIn(EMBEDDING_ERROR_KEYWORDS, error_str)

\* what one call of the wrapper did: the flag after it, how often it called
\* the primary and the fallback, and what it returned or raised
CallResult(flag, primary_calls, fallback_calls, raised, error, value) ==
    [using_fallback |-> flag, primary_calls |-> primary_calls,
     fallback_calls |-> fallback_calls, raised |-> raised,
     error |-> error, value |-> value]

\* embed_documents falling back on every exception of the primary
ResilientEmbedDocuments_AlwaysFallBack(texts, prim, flag) ==
    IF flag
    THEN CallResult(flag, 0, 1, FALSE, <<>>, OfflineEmbedDocuments(texts))
    ELSE IF prim.ok
    THEN CallResult(flag, 1, 0, FALSE, <<>>, PrimaryEmbedDocuments(texts))
    ELSE CallResult(TRUE, 1, 1, FALSE, <<>>, OfflineEmbedDocuments(texts))

\* ResilientEmbeddings.embed_documents(texts), the primary behaving as prim
ResilientEmbedDocuments(texts, prim, flag) ==
    IF flag
    THEN CallResult(flag, 0, 1, FALSE, <<>>, OfflineEmbedDocuments(texts))
    ELSE IF prim.ok
    THEN CallResult(flag, 1, 0, FALSE, <<>>, PrimaryEmbedDocuments(texts))
    ELSE LET error_str == Lower(prim.msg)
         IN  IF IsEmbeddingNetworkError(error_str)
             THEN CallResult(TRUE, 1, 1, FALSE, <<>>, OfflineEmbedDocuments(texts))
             ELSE CallResult(flag, 1, 0, TRUE, prim.msg, <<>>)

\* embed_query without the test of using_fallback at its entry
ResilientEmbedQuery_NoEntryTest(text, prim, flag) ==
    IF prim.ok
    THEN CallResult(flag, 1, 0, FALSE, <<>>, PrimaryEmbedQuery(text))
    ELSE LET error_str == Lower(prim.msg)
         IN  IF IsEmbeddingNetworkError(error_str)
             THEN CallResult(TRUE, 1, 1, FALSE, <<>>, OfflineEmbedQuery(text))
             ELSE CallResult(flag, 1, 0, TRUE, prim.msg, <<>>)

\* ResilientEmbeddings.embed_query(text), the primary behaving as prim
ResilientEmbedQuery(text, prim, flag) ==
    IF flag
    THEN CallResult(flag, 0, 1, FALSE, <<>>, OfflineEmbedQuery(text))
    ELSE IF prim.ok
    THEN CallResult(flag, 1, 0, FALSE, <<>>, PrimaryEmbedQuery(text))
    ELSE LET error_str == Lower(prim.msg)
         IN  IF IsEmbeddingNetworkError(error_str)
             THEN CallResult(TRUE, 1, 1, FALSE, <<>>, OfflineEmbedQuery(text))
             ELSE CallResult(flag, 1, 0, TRUE, prim.msg, <<>>)

\* ------------------------------------------------------------------------
\* Chat: canned responder and resilient wrapper
\* ------------------------------------------------------------------------

\* the keyword lists of DemoLLM._generate_response, in the order they are tested
KEYWORDS ==
    [VACATION_WORDS |->
        <<
          <<"v","a","c","a","t","i","o","n">>,
          <<"p","t","o">>,
          <<"t","i","m","e"," ","o","f","f">>,
          <<"l","e","a","v","e">>
        >>,
     SALES_WORDS |->
        <<
          <<"s","a","l","e","s">>,
          <<"r","e","v","e","n","u","e">>,
          <<"q","4">>,
          <<"q","u","a","r","t","e","r">>
        >>,
     LEASE_WORDS |->
        <<
          <<"l","e","a","s","e">>,
          <<"r","e","n","t">>,
          <<"t","e","n","a","n","t">>,
          <<"l","a","n","d","l","o","r","d">>
        >>,
     RISK_WORDS |->
        <<
          <<"r","i","s","k">>,
          <<"o","b","l","i","g","a","t","i","o","n">>,
          <<"c","o","m","p","l","i","a","n","c","e">>,
          <<"l","e","g","a","l">>
        >>,
     EMPLOYEE_WORDS |->
        <<
          <<"e","m","p","l","o","y","e","e">>,
          <<"s","t","a","f","f">>,
          <<"h","r">>,
          <<"h","a","n","d","b","o","o","k">>
        >>]

\* the canned answers of DemoLLM, one for each keyword group, the generic
\* answer and the apology
Responses ==
    [VacationResponse |->
        <<"B","a","s","e","d"," ","o","n"," ","t","h","e"," ","e","m","p","l","o","y","e","e"," ",
          "h","a","n","d","b","o","o","k",","," ","t","h","e"," ","v","a","c","a","t","i","o","n",
          " ","p","o","l","i","c","y"," ","i","n","c","l","u","d","e","s",":">>,
     SalesResponse |->
        <<"B","a","s","e","d"," ","o","n"," ","t","h","e"," ","Q","4"," ","s","a","l","e","s"," ",
          "d","a","t","a",","," ","h","e","r","e"," ","a","r","e"," ","t","h","e"," ","k","e","y",
          " ","h","i","g","h","l","i","g","h","t","s",":">>,
     LeaseResponse |->
        <<"B","a","s","e","d"," ","o","n"," ","t","h","e"," ","l","e","a","s","e"," ","a","g","r",
          "e","e","m","e","n","t",","," ","k","e","y"," ","t","e","r","m","s"," ","i","n","c","l",
          "u","d","e",":">>,
     RiskResponse |->
        <<"B","a","s","e","d"," ","o","n"," ","t","h","e"," ","u","p","l","o","a","d","e","d"," ",
          "d","o","c","u","m","e","n","t","s",","," ","k","e","y"," ","r","i","s","k","s"," ","a",
          "n","d"," ","o","b","l","i","g","a","t","i","o","n","s"," ","i","n","c","l","u","d","e",
          ":">>,
     EmployeeResponse |->
        <<"B","a","s","e","d"," ","o","n"," ","t","h","e"," ","e","m","p","l","o","y","e","e"," ",
          "h","a","n","d","b","o","o","k",","," ","i","m","p","o","r","t","a","n","t"," ","i","n",
          "f","o","r","m","a","t","i","o","n"," ","i","n","c","l","u","d","e","s",":">>,
     ApologyResponse |->
        <<"I"," ","a","p","o","l","o","g","i","z","e",","," ","b","u","t"," ","I"," ","d","o","n",
          "'","t"," ","h","a","v","e"," ","e","n","o","u","g","h"," ","r","e","l","e","v","a","n",
          "t"," ","i","n","f","o","r","m","a","t","i","o","n">>,
     GenericResponse |->
        <<"B","a","s","e","d"," ","o","n"," ","t","h","e"," ","a","v","a","i","l","a","b","l","e",
          " ","d","o","c","u","m","e","n","t","s",","," ","h","e","r","e","'","s"," ","w","h","a",
          "t"," ","I"," ","f","o","u","n","d",":">>]

\* len(context) below which _generic_response apologizes
GenericContextLen ==
    50

\* DemoLLM._generic_response
GenericResponseFor(context) ==
    IF context = <<>> \/ Len(context) < GenericContextLen
    THEN Responses.ApologyResponse
    ELSE Responses.GenericResponse

\* _generate_response testing the employee words before the risk words
GenerateResponse_EmployeeBeforeRisk(question, context) ==
    LET question_lower == Lower(question)
    IN  IF AnyKeywordIn(KEYWORDS.VACATION_WORDS, question_lower) THEN Responses.VacationResponse
        ELSE IF AnyKeywordIn(KEYWORDS.SALES_WORDS, question_lower) THEN Responses.SalesResponse
        ELSE IF AnyKeywordIn(KEYWORDS.LEASE_WORDS, question_lower) THEN Responses.LeaseResponse
        ELSE IF AnyKeywordIn(KEYWORDS.EMPLOYEE_WORDS, question_lower) THEN Responses.EmployeeResponse
        ELSE IF AnyKeywordIn(KEYWORDS.RISK_WORDS, question_lower) THEN Responses.RiskResponse
        ELSE GenericResponseFor(context)

\* DemoLLM._generate_response
GenerateResponse(question, context) ==
    LET question_lower == Lower(question)
    IN  IF AnyKeywordIn(KEYWORDS.VACATION_WORDS, question_lower) THEN Responses.VacationResponse
        ELSE IF AnyKeywordIn(KEYWORDS.SALES_WORDS, question_lower) THEN Responses.SalesResponse
        ELSE IF AnyKeywordIn(KEYWORDS.LEASE_WORDS, question_lower) THEN Responses.LeaseResponse
        ELSE IF AnyKeywordIn(KEYWORDS.RISK_WORDS, question_lower) THEN Responses.RiskResponse
        ELSE IF AnyKeywordIn(KEYWORDS.EMPLOYEE_WORDS, question_lower) THEN Responses.EmployeeResponse
        ELSE GenericResponseFor(context)

\* the test of the loop of DemoLLM._call
IsContextMessage(content) ==
    \/ Contains(content, <<"C","o","n","t","e","x","t",":">>)
    \/ Contains(content, <<"c","o","n","t","e","x","t",":">>)

\* the loop of DemoLLM._call over messages[i..]: returns
\* <<user_message, context_docs>>
RECURSIVE ScanMessages(_, _, _, _)
ScanMessages(messages, i, user_message, context_docs) ==
    IF i > Len(messages) THEN <<user_message, context_docs>>
    ELSE IF IsContextMessage(messages[i])
    THEN ScanMessages(messages, i + 1, user_message, messages[i])
    ELSE ScanMessages(messages, i + 1, messages[i], context_docs)

\* DemoLLM._call(messages); a message is modelled by its content
DemoCall(messages) ==
    LET scanned == ScanMessages(messages, 1, <<>>, <<>>)
    IN  GenerateResponse(scanned[1], scanned[2])

\* ------------------------------------------------------------------------
\* Citation formatter
\* ------------------------------------------------------------------------

\* the fixed texts of the orchestrator: the prompt template around context and
\* question, the answers given without generation, the prefix of an error
\* answer and the pieces of the formatted context
RagText ==
    [TemplateBeforeContext |->
        <<"Y","o","u"," ","a","r","e"," ","a"," ","h","e","l","p","f","u","l"," ","a","s","s","i",
          "s","t","a","n","t"," ","t","h","a","t"," ","a","n","s","w","e","r","s"," ","q","u","e",
          "s","t","i","o","n","s"," ","b","a","s","e","d"," ","o","n"," ","t","h","e"," ","p","r",
          "o","v","i","d","e","d"," ","c","o","n","t","e","x","t"," ","f","r","o","m"," ","d","o",
          "c","u","m","e","n","t","s",".","\n","\n","C","o","n","t","e","x","t"," ","f","r","o","m",
          " ","d","o","c","u","m","e","n","t","s",":","\n">>,
     TemplateAfterQuestion |->
        <<"\n","\n","I","n","s","t","r","u","c","t","i","o","n","s",":","\n","-"," ","A","n","s",
          "w","e","r"," ","t","h","e"," ","q","u","e","s","t","i","o","n"," ","u","s","i","n","g",
          " ","O","N","L","Y"," ","t","h","e"," ","i","n","f","o","r","m","a","t","i","o","n"," ",
          "f","r","o","m"," ","t","h","e"," ","c","o","n","t","e","x","t"," ","a","b","o","v","e",
          ".","\n","-"," ","I","f"," ","t","h","e"," ","c","o","n","t","e","x","t"," ","d","o","e",
          "s"," ","n","o","t"," ","c","o","n","t","a","i","n"," ","e","n","o","u","g","h"," ","i",
          "n","f","o","r","m","a","t","i","o","n"," ","t","o"," ","a","n","s","w","e","r"," ","t",
          "h","e"," ","q","u","e","s","t","i","o","n",","," ","s","a","y"," ","\"","I"," ","c","a",
          "n","n","o","t"," ","f","i","n","d"," ","t","h","a","t"," ","i","n","f","o","r","m","a",
          "t","i","o","n"," ","i","n"," ","t","h","e"," ","p","r","o","v","i","d","e","d"," ","d",
          "o","c","u","m","e","n","t","s","\""," ","a","n","d"," ","s","u","g","g","e","s","t"," ",
          "h","o","w"," ","t","h","e"," ","u","s","e","r"," ","m","i","g","h","t"," ","r","e","p",
          "h","r","a","s","e"," ","t","h","e","i","r"," ","q","u","e","s","t","i","o","n",".","\n",
          "-"," ","B","e"," ","c","o","n","c","i","s","e"," ","a","n","d"," ","a","c","c","u","r",
          "a","t","e",".","\n","-"," ","D","o"," ","n","o","t"," ","m","a","k","e"," ","u","p"," ",
          "i","n","f","o","r","m","a","t","i","o","n"," ","t","h","a","t"," ","i","s"," ","n","o",
          "t"," ","i","n"," ","t","h","e"," ","c","o","n","t","e","x","t",".","\n","\n","A","n","s",
          "w","e","r",":">>,
     NoDocumentsMessage |->
        <<"N","o"," ","d","o","c","u","m","e","n","t","s"," ","h","a","v","e"," ","b","e","e","n",
          " ","i","n","d","e","x","e","d"," ","y","e","t","."," ","P","l","e","a","s","e"," ","u",
          "p","l","o","a","d"," ","a","n","d"," ","i","n","d","e","x"," ","s","o","m","e"," ","d",
          "o","c","u","m","e","n","t","s"," ","f","i","r","s","t",".">>,
     NoResultsMessage |->
        <<"I"," ","c","o","u","l","d","n","'","t"," ","f","i","n","d"," ","a","n","y"," ","r","e",
          "l","e","v","a","n","t"," ","i","n","f","o","r","m","a","t","i","o","n"," ","i","n"," ",
          "t","h","e"," ","i","n","d","e","x","e","d"," ","d","o","c","u","m","e","n","t","s",".",
          " ","P","l","e","a","s","e"," ","t","r","y"," ","r","e","p","h","r","a","s","i","n","g",
          " ","y","o","u","r"," ","q","u","e","s","t","i","o","n"," ","o","r"," ","u","p","l","o",
          "a","d"," ","m","o","r","e"," ","r","e","l","e","v","a","n","t"," ","d","o","c","u","m",
          "e","n","t","s",".">>,
     ErrorAnswerPrefix |->
        <<"E","r","r","o","r"," ","g","e","n","e","r","a","t","i","n","g"," ","a","n","s","w","e",
          "r",":"," ">>,
     NoRelevantDocuments |->
        <<"N","o"," ","r","e","l","e","v","a","n","t"," ","d","o","c","u","m","e","n","t","s"," ",
          "f","o","u","n","d",".">>,
     SourceOpen |->
        <<"[","S","o","u","r","c","e",":"," ">>,
     PageLabel |->
        <<","," ","P","a","g","e"," ">>,
     ContextDivider |->
        <<"\n","-","-","-","\n">>]

\* the fixed texts of the citation formatter: the header of the sources
\* section, the bullet of a line, the dash of a range and the separator of
\* ranges
CitationText ==
    [SourcesHeader |->
        <<"\n","\n","S","o","u","r","c","e","s",":","\n","\n">>,
     Bullet |->
        <<"U+2022"," ">>,
     RangeDash |->
        <<"U+2013">>,
     RangeSeparator |->
        <<","," ">>]

\* the characters of file names, in code point order
CodePoints ==
    <<" ","-",".","0","1","2","3","4","5","6","7","8","9","A","B","C","D","E","F","G","H","I",
      "J","K","L","M","N","O","P","Q","R","S","T","U","V","W","X","Y","Z","_","a","b","c","d",
      "e","f","g","h","i","j","k","l","m","n","o","p","q","r","s","t","u","v","w","x","y","z">>

\* ord(c) for the characters of CodePoints
Ord(c) ==
    CHOOSE i \in 1..Len(CodePoints) : CodePoints[i] = c

\* a < b for Python str: lexicographic by code point
RECURSIVE StrLess(_, _)
StrLess(a, b) ==
    IF b = <<>> THEN FALSE
    ELSE IF a = <<>> THEN TRUE
    ELSE IF a[1] = b[1] THEN StrLess(Tail(a), Tail(b))
    ELSE Ord(a[1]) < Ord(b[1])

Digits ==
    <<"0","1","2","3","4","5","6","7","8","9">>

\* str(n) for n >= 0
RECURSIVE IntToStr(_)
IntToStr(n) ==
    IF n < 10 THEN <<Digits[n + 1]>>
    ELSE IntToStr(n \div 10) \o <<Digits[(n % 10) + 1]>>

\* separator.join(parts)
RECURSIVE Join(_, _)
Join(separator, parts) ==
    IF parts = <<>> THEN <<>>
    ELSE IF Len(parts) = 1 THEN parts[1]
    ELSE parts[1] \o separator \o Join(separator, Tail(parts))

\* sorted(...) of a set of integers
RECURSIVE SortedInts(_)
SortedInts(S) ==
    IF S = {} THEN <<>>
    ELSE LET m == CHOOSE x \in S : \A y \in S : x <= y
         IN  <<m>> \o SortedInts(S \ {m})

\* sorted(...) of a set of str
RECURSIVE SortedStrs(_)
SortedStrs(S) ==
    IF S = {} THEN <<>>
    ELSE LET m == CHOOSE x \in S : \A y \in S \ {x} : StrLess(x, y)
         IN  <<m>> \o SortedStrs(S \ {m})

\* every item written as a range, also that of a single page
RangeItem_AlwaysRange(start, end) ==
    IntToStr(start) \o CitationText.RangeDash \o IntToStr(end)

\* one item of _format_page_ranges: "start" or "start-end" with an en dash
RangeItem(start, end) ==
    IF start = end THEN IntToStr(start)
    ELSE IntToStr(start) \o CitationText.RangeDash \o IntToStr(end)

\* the loop of _format_page_ranges over pages[i..], run start..end open
RECURSIVE PageRangeLoop(_, _, _, _, _)
PageRangeLoop(pages, i, start, end, ranges) ==
    IF i > Len(pages) THEN Append(ranges, RangeItem(start, end))
    ELSE IF pages[i] = end + 1
    THEN PageRangeLoop(pages, i + 1, start, pages[i], ranges)
    ELSE PageRangeLoop(pages, i + 1, pages[i], pages[i],
                       Append(ranges, RangeItem(start, end)))

\* _format_page_ranges without the range added after the loop
FormatPageRanges_WithoutLastRange(pages) ==
    IF pages = <<>> THEN <<>>
    ELSE LET ranges == PageRangeLoop(pages, 2, pages[1], pages[1], <<>>)
         IN  Join(CitationText.RangeSeparator, SubSeq(ranges, 1, Len(ranges) - 1))

\* _format_page_ranges
FormatPageRanges(pages) ==
    IF pages = <<>> THEN <<>>
    ELSE Join(CitationText.RangeSeparator, PageRangeLoop(pages, 2, pages[1], pages[1], <<>>))

\* citations_by_file[filename]['pages'] after the loop over documents
PagesOfFile(documents, filename) ==
    {documents[i].metadata.page[1] :
        i \in {j \in 1..Len(documents) :
                 /\ documents[j].metadata.filename = filename
                 /\ documents[j].metadata.page # <<>>}}

\* the citation line of one file
CitationLine(documents, filename) ==
    LET pages == SortedInts(PagesOfFile(documents, filename))
    IN  IF pages # <<>>
        THEN CitationText.Bullet \o filename \o <<" ","(","p","a","g","e","s"," ">>
               \o FormatPageRanges(pages) \o <<")">>
        ELSE CitationText.Bullet \o filename

\* format_citations listing the files in the order of their first chunk
FormatCitations_RetrievalOrder(documents) ==
    LET Seen(i) == \E j \in 1..(i - 1) :
                      documents[j].metadata.filename = documents[i].metadata.filename
        firsts == SelectSeq([i \in 1..Len(documents) |-> IF Seen(i) THEN <<>> ELSE <<i>>],
                            LAMBDA x : x # <<>>)
    IN  Join(<<"\n">>,
             [n \in 1..Len(firsts) |->
                 CitationLine(documents, documents[firsts[n][1]].metadata.filename)])

\* format_citations
FormatCitations(documents) ==
    IF documents = <<>> THEN <<>>
    ELSE LET filenames ==
                 SortedStrs({documents[i].metadata.filename : i \in 1..Len(documents)})
         IN  Join(<<"\n">>,
                  [n \in 1..Len(filenames) |-> CitationLine(documents, filenames[n])])

\* create_sources_section
CreateSourcesSection(documents) ==
    IF documents = <<>> THEN <<>>
    ELSE LET citations == FormatCitations(documents)
         IN  IF citations # <<>> THEN CitationText.SourcesHeader \o citations ELSE <<>>

\* ------------------------------------------------------------------------
\* RAG pipeline: context, prompt, answer
\* ------------------------------------------------------------------------

\* the context part of one document in _format_context
ContextPart(doc) ==
    RagText.SourceOpen \o doc.metadata.filename
      \o (IF doc.metadata.page # <<>>
          THEN RagText.PageLabel \o IntToStr(doc.metadata.page[1]) ELSE <<>>)
      \o <<"]">> \o <<"\n">> \o doc.page_content \o <<"\n">>

\* _format_context listing the documents last to first
FormatContext_Reversed(documents) ==
    IF documents = <<>> THEN RagText.NoRelevantDocuments
    ELSE Join(RagText.ContextDivider,
              [i \in 1..Len(documents) |->
                  ContextPart(documents[Len(documents) + 1 - i])])

\* RAGPipeline._format_context
FormatContext(documents) ==
    IF documents = <<>> THEN RagText.NoRelevantDocuments
    ELSE Join(RagText.ContextDivider,
              [i \in 1..Len(documents) |-> ContextPart(documents[i])])

\* the prompt of the chain: RAG_PROMPT_TEMPLATE with context and question
FormatPrompt(context, question) ==
    RagText.TemplateBeforeContext \o context \o <<"\n","\n","Q","u","e","s","t","i","o","n",":"," ">>
      \o question \o RagText.TemplateAfterQuestion

\* ------------------------------------------------------------------------
\* Inputs and bounds of the model
\* ------------------------------------------------------------------------

\* most chunks the store holds
MaxStore ==
    2

\* most chunks one add_documents call passes
MaxAdd ==
    2

\* Config.top_k when the configuration file does not set retrieval.top_k
ConfigTopK ==
    5

\* questions asked
Questions ==
    {<<"r","e","n","t","?">>, <<"H","i">>}

\* message lists passed to the chat wrapper directly
MessageLists ==
    {<<<<"P","T","O","?">>>>,
     <<<<"C","o","n","t","e","x","t",":"," ","x">>, <<"H","i">>>>}

FileA ==
    <<"a",".","p","d","f">>

\* a chunk: langchain Document with page_content and metadata; the optional
\* page is <<>> when the key is absent and <<p>> when it is p
Chunk(content, filename, filetype, page) ==
    [page_content |-> content,
     metadata |-> [filename |-> filename, filetype |-> filetype, page |-> page]]

Chunks ==
    {Chunk(<<"P","T","O"," ","1","5">>, FileA, "pdf", <<2>>),
     Chunk(<<"H","i">>, <<"B",".","t","x","t">>, "txt", <<>>)}

\* filter=None
NoFilter ==
    <<>>

\* the sequences of length 0..n over S
SeqsUpTo(S, n) ==
    UNION {[1..m -> S] : m \in 0..n}

\* the orders in which the storage engine can rank n stored chunks
Rankings(n) ==
    {r \in [1..n -> 1..n] : \A i, j \in 1..n : i # j => r[i] # r[j]}

\* the primary chat model returns text
ReturnedText(text) ==
    [ok |-> TRUE, msg |-> <<>>, text |-> text]

\* what the embedding model does in a call made by the store
StoreEmbedOutcomes ==
    {Returned, Raised(PrimaryErrors.MsgConnection), Raised(PrimaryErrors.MsgRateLimit)}

\* the non-empty document lists retrieval can return
RetrievedLists ==
    SeqsUpTo(Chunks, MaxStore) \ {<<>>}

\* DemoLLM._call tabulated over the message lists of the model
DemoCallTable ==
    {<<m, DemoCall(m)>> :
        m \in MessageLists \cup {<<FormatPrompt(FormatContext(d), q)>> :
                                   d \in RetrievedLists, q \in Questions}}

\* self._fallback._call(messages): DemoLLM._call, read from the table
DemoLLMCall(messages) ==
    LET hit == {p \in DemoCallTable : p[1] = messages}
    IN  IF hit # {} THEN (CHOOSE p \in hit : TRUE)[2] ELSE DemoCall(messages)

\* the test of the except branch of ResilientChatModel._call
IsChatAuthOrNetworkError(error_str) ==
    AnyKeywordIn(CHAT_ERROR_KEYWORDS, error_str)

\* ResilientChatModel._call(messages), the primary behaving as prim
ResilientChatCall(messages, prim, flag) ==
    IF flag
    THEN CallResult(flag, 0, 1, FALSE, <<>>, DemoLLMCall(messages))
    ELSE IF prim.ok
    THEN CallResult(flag, 1, 0, FALSE, <<>>, prim.text)
    ELSE LET error_str == Lower(prim.msg)
         IN  IF IsChatAuthOrNetworkError(error_str)
             THEN CallResult(TRUE, 1, 1, FALSE, <<>>, DemoLLMCall(messages))
             ELSE CallResult(flag, 1, 0, TRUE, prim.msg, <<>>)

\* ------------------------------------------------------------------------
\* State
\* ------------------------------------------------------------------------

VARIABLES
    provider,             \* RAGPipeline.provider / the provider of the models
    config,               \* Config: model_provider and OPENAI_API_KEY
    threads,              \* the call each concurrent caller is in, and where
    added,                \* the chunks written since the last clear deleted
                          \* the entries or returned
    using_fallback,       \* ResilientEmbeddings.using_fallback
    chat_using_fallback,  \* ResilientChatModel._using_fallback
    latched_by,           \* the method whose call set using_fallback, or "none"
    store,                \* the Chroma collection: chunks with their vectors
    pc,                   \* "idle", or "done" while a call's result is held
    emb,                  \* what the last call did in the embedding wrapper
    chat,                 \* what the last call did in the chat wrapper
    ret                   \* the last call and what it returned or raised

vars ==
    <<provider, config, threads, added, using_fallback, chat_using_fallback,
      latched_by, store, pc, emb, chat, ret>>

\* record of one call of a resilient wrapper
WrapperCall(op, input, prim, before, r) ==
    [op |-> op, input |-> input, prim |-> prim, before |-> before,
     after |-> r.using_fallback, primary_calls |-> r.primary_calls,
     fallback_calls |-> r.fallback_calls, raised |-> r.raised,
     error |-> r.error, value |-> r.value]

\* no call of the wrapper
NoCall ==
    [op |-> "none", input |-> <<>>, prim |-> Returned, before |-> FALSE,
     after |-> FALSE, primary_calls |-> 0, fallback_calls |-> 0,
     raised |-> FALSE, error |-> <<>>, value |-> <<>>]

\* what a call returned: value for the wrappers and the store, (answer,
\* documents) for query; trace lists the collaborators query invoked and
\* input holds the argument of a store or ingestion call
Return(op, raised, error, value) ==
    [op |-> op, raised |-> raised, error |-> error, value |-> value,
     input |-> <<>>, answer |-> <<>>, documents |-> <<>>, question |-> <<>>,
     include_citations |-> FALSE, doc_count |-> 0, retrieved |-> <<>>,
     search_raised |-> FALSE, generated |-> <<>>, context |-> <<>>,
     chain_raised |-> FALSE, chain_error |-> <<>>, trace |-> <<>>]

NoReturn ==
    Return("none", FALSE, <<>>, <<>>)

\* the callers that share the embeddings, the chat model and the store
Threads ==
    {"t1", "t2"}

\* a caller that is in no call: in a call, pc is the step it is about to
\* take, at_primary and latch_over hold the flag ("clear" or "set") it found
\* when it invoked the primary and when it assigned the flag, engine is
\* what the storage engine did for it
IdleThread ==
    [op |-> "none", pc |-> "idle", input |-> <<>>, prim |-> Returned,
     at_primary |-> "none", latch_over |-> "none", engine |-> Returned,
     raised |-> FALSE, error |-> <<>>, value |-> <<>>]

Init ==
    /\ provider \in {"openai", "ollama"}
    /\ config = [model_provider |-> provider, openai_api_key |-> <<"s","k">>]
    /\ threads = [t \in Threads |-> IdleThread]
    /\ added = <<>>
    /\ using_fallback = FALSE
    /\ chat_using_fallback = FALSE
    /\ latched_by = "none"
    /\ store = <<>>
    /\ pc = "idle"
    /\ emb = NoCall
    /\ chat = NoCall
    /\ ret = NoReturn

\* ------------------------------------------------------------------------
\* Calls of the wrappers
\* ------------------------------------------------------------------------

\* the method that set using_fallback: op when this call set it
LatchedBy(op, before, r) ==
    IF ~before /\ r.using_fallback THEN op ELSE latched_by

\* ResilientEmbeddings.embed_documents(texts)
EmbedDocuments(texts, prim) ==
    /\ pc = "idle"
    /\ provider = "openai"
    /\ \E r \in {ResilientEmbedDocuments(texts, prim, using_fallback)} :
           /\ using_fallback' = r.using_fallback
           /\ latched_by' = LatchedBy("embed_documents", using_fallback, r)
           /\ emb' = WrapperCall("embed_documents", texts, prim, using_fallback, r)
           /\ ret' = Return("embed_documents", r.raised, r.error, r.value)
    /\ chat' = NoCall
    /\ pc' = "done"
    /\ UNCHANGED <<provider, config, threads, added, chat_using_fallback, store>>

\* ResilientEmbeddings.embed_query(text)
EmbedQuery(text, prim) ==
    /\ pc = "idle"
    /\ provider = "openai"
    /\ \E r \in {ResilientEmbedQuery(text, prim, using_fallback)} :
           /\ using_fallback' = r.using_fallback
           /\ latched_by' = LatchedBy("embed_query", using_fallback, r)
           /\ emb' = WrapperCall("embed_query", text, prim, using_fallback, r)
           /\ ret' = Return("embed_query", r.raised, r.error, r.value)
    /\ chat' = NoCall
    /\ pc' = "done"
    /\ UNCHANGED <<provider, config, threads, added, chat_using_fallback, store>>

\* ResilientChatModel._call(messages)
ChatCall(messages, prim) ==
    /\ pc = "idle"
    /\ provider = "openai"
    /\ \E r \in {ResilientChatCall(messages, prim, chat_using_fallback)} :
           /\ chat_using_fallback' = r.using_fallback
           /\ chat' = WrapperCall("_call", messages, prim, chat_using_fallback, r)
           /\ ret' = Return("_call", r.raised, r.error, r.value)
    /\ emb' = NoCall
    /\ pc' = "done"
    /\ UNCHANGED <<provider, config, threads, added, using_fallback, latched_by, store>>

\* ------------------------------------------------------------------------
\* Vector store and pipeline operations
\* ------------------------------------------------------------------------

\* what the storage engine does in a call: it returns, or raises with
\* 'database is locked'
StorageOutcomes ==
    {Returned, Raised(<<"d","a","t","a","b","a","s","e"," ","i","s"," ","l","o","c","k","e","d">>)}

\* a call of the local embedding model, which has no wrapper
DirectEmbed(value, prim) ==
    IF prim.ok
    THEN CallResult(FALSE, 1, 0, FALSE, <<>>, value)
    ELSE CallResult(FALSE, 1, 0, TRUE, prim.msg, <<>>)

\* ModelFactory.create_embeddings: the embeddings object of the provider,
\* called with embed_documents
ProviderEmbedDocuments(prov, texts, prim, flag) ==
    IF prov = "openai"
    THEN ResilientEmbedDocuments(texts, prim, flag)
    ELSE DirectEmbed(PrimaryEmbedDocuments(texts), prim)

\* ModelFactory.create_embeddings: the embeddings object of the provider,
\* called with embed_query
ProviderEmbedQuery(prov, text, prim, flag) ==
    IF prov = "openai"
    THEN ResilientEmbedQuery(text, prim, flag)
    ELSE DirectEmbed(PrimaryEmbedQuery(text), prim)

\* the record of the wrapper's call, when the provider has a wrapper
WrapperCallOf(prov, op, input, prim, before, r) ==
    IF prov = "openai" THEN WrapperCall(op, input, prim, before, r) ELSE NoCall

\* a count that is read whatever the collection does
GetDocumentCount_Unguarded(count_out, st) ==
    Len(st)

\* VectorStore.get_document_count: 0 when the collection cannot be read
GetDocumentCount(count_out, st) ==
    IF count_out.ok THEN Len(st) ELSE 0

\* an entry test that never holds
IsEmptyIndex_Never(doc_count) ==
    doc_count < 0

\* the entry test of query: doc_count == 0
IsEmptyIndex(doc_count) ==
    doc_count = 0

\* the configured top_k whatever k is
EffectiveK_ConfigOnly(k) ==
    ConfigTopK

\* k or self.config.top_k
EffectiveK(k) ==
    IF k # 0 THEN k ELSE ConfigTopK

\* the smaller of two numbers
Min(a, b) ==
    IF a <= b THEN a ELSE b

\* the chunk passes the filter of a search: its metadata has the value
\* under the key
MatchesFilter(doc, filter) ==
    \/ filter = NoFilter
    \/ doc.metadata[filter[1].key] = filter[1].value

\* the positions the engine returns: the first kk of the ranking among the
\* chunks that pass the filter
NearestMatching(st, ranking, kk, filter) ==
    LET matching == SelectSeq([i \in 1..Len(st) |-> ranking[i]],
                              LAMBDA i : MatchesFilter(st[i].doc, filter))
    IN  SubSeq(matching, 1, Min(kk, Len(matching)))

\* VectorStore.similarity_search(query, k, filter): the query is embedded
\* by the store's embeddings, then the engine returns the k nearest chunks
\* that pass the filter, in the order ranking; an error of either is logged
\* and raised again
SimilaritySearch(query, k, filter, embed_out, engine_out, ranking, prov, flag, st) ==
    LET kk == EffectiveK(k)
        Search(e) ==
            LET call == WrapperCallOf(prov, "embed_query", query, embed_out, flag, e)
            IN  IF e.raised
                THEN [raised |-> TRUE, error |-> e.error, documents |-> <<>>,
                      using_fallback |-> e.using_fallback, emb |-> call,
                      trace |-> <<"search", "embed">>]
                ELSE IF ~engine_out.ok
                THEN [raised |-> TRUE, error |-> engine_out.msg, documents |-> <<>>,
                      using_fallback |-> e.using_fallback, emb |-> call,
                      trace |-> <<"search", "embed", "engine">>]
                ELSE [raised |-> FALSE, error |-> <<>>,
                      documents |-> LET hits == NearestMatching(st, ranking, kk, filter)
                                    IN  [i \in 1..Len(hits) |-> st[hits[i]].doc],
                      using_fallback |-> e.using_fallback, emb |-> call,
                      trace |-> <<"search", "embed", "engine">>]
    IN  Search(ProviderEmbedQuery(prov, query, embed_out, flag))

\* retrieve_documents without its except clause
RetrieveDocuments_Propagating(query, top_k, embed_out, engine_out, ranking, prov, flag, st) ==
    LET Retrieved(s) ==
            [raised |-> s.raised, error |-> s.error, documents |-> s.documents,
             search_raised |-> s.raised,
             using_fallback |-> s.using_fallback, emb |-> s.emb, trace |-> s.trace]
    IN  Retrieved(SimilaritySearch(query, EffectiveK(top_k), NoFilter, embed_out, engine_out,
                                   ranking, prov, flag, st))

\* RAGPipeline.retrieve_documents: an exception of the search gives []
RetrieveDocuments(query, top_k, embed_out, engine_out, ranking, prov, flag, st) ==
    LET Retrieved(s) ==
            [raised |-> FALSE, error |-> <<>>,
             documents |-> IF s.raised THEN <<>> ELSE s.documents,
             search_raised |-> s.raised,
             using_fallback |-> s.using_fallback, emb |-> s.emb, trace |-> s.trace]
    IN  Retrieved(SimilaritySearch(query, EffectiveK(top_k), NoFilter, embed_out, engine_out,
                                   ranking, prov, flag, st))

\* the chat model of the provider called with the prompt: the resilient
\* wrapper for 'openai', the local model itself for 'ollama'
ProviderChat(prov, messages, prim, flag) ==
    IF prov = "openai"
    THEN ResilientChatCall(messages, prim, flag)
    ELSE IF prim.ok
    THEN CallResult(FALSE, 1, 0, FALSE, <<>>, prim.text)
    ELSE CallResult(FALSE, 1, 0, TRUE, prim.msg, <<>>)

\* generate_answer without its except clause
GenerateAnswer_Propagating(query, documents, chat_out, prov, flag) ==
    LET Invoke(context, messages, r) ==
            [raised |-> r.raised, error |-> r.error,
             answer |-> Strip(r.value),
             context |-> context, chain_raised |-> r.raised, chain_error |-> r.error,
             using_fallback |-> r.using_fallback,
             chat |-> WrapperCallOf(prov, "_call", messages, chat_out, flag, r),
             trace |-> <<"chat">>]
        Chain(context, messages) ==
            Invoke(context, messages, ProviderChat(prov, messages, chat_out, flag))
        Prompt(context) ==
            Chain(context, <<FormatPrompt(context, query)>>)
    IN  Prompt(FormatContext(documents))

\* RAGPipeline.generate_answer: the stripped output of the chain, or the
\* error text when anything in the try block raises
GenerateAnswer(query, documents, chat_out, prov, flag) ==
    LET Invoke(context, messages, r) ==
            [raised |-> FALSE, error |-> <<>>,
             answer |-> IF r.raised THEN RagText.ErrorAnswerPrefix \o r.error
                        ELSE Strip(r.value),
             context |-> context, chain_raised |-> r.raised, chain_error |-> r.error,
             using_fallback |-> r.using_fallback,
             chat |-> WrapperCallOf(prov, "_call", messages, chat_out, flag, r),
             trace |-> <<"chat">>]
        Chain(context, messages) ==
            Invoke(context, messages, ProviderChat(prov, messages, chat_out, flag))
        Prompt(context) ==
            Chain(context, <<FormatPrompt(context, query)>>)
    IN  Prompt(FormatContext(documents))

\* the sources section appended whether asked for or not
WithCitations_Always(answer, documents, include_citations) ==
    answer \o CreateSourcesSection(documents)

\* the last lines of query: the sources section is appended when asked for
WithCitations(answer, documents, include_citations) ==
    IF include_citations
    THEN answer \o CreateSourcesSection(documents)
    ELSE answer

\* no generation took place
NoGeneration ==
    [answer |-> <<>>, context |-> <<>>, chain_raised |-> FALSE,
     chain_error |-> <<>>]

\* what query returned, with what it did on the way
QueryReturn(question, include_citations, doc_count, r, g, answer, documents, trace) ==
    [Return("query", FALSE, <<>>, <<>>) EXCEPT
        !.question = question, !.include_citations = include_citations,
        !.doc_count = doc_count, !.retrieved = r.documents,
        !.search_raised = r.search_raised, !.generated = g.answer,
        !.context = g.context, !.chain_raised = g.chain_raised,
        !.chain_error = g.chain_error,
        !.answer = answer, !.documents = documents, !.trace = trace]

\* an exception that leaves query
QueryRaise(question, include_citations, doc_count, r, g, error, trace) ==
    [Return("query", TRUE, error, <<>>) EXCEPT
        !.question = question, !.include_citations = include_citations,
        !.doc_count = doc_count, !.retrieved = r.documents,
        !.search_raised = r.search_raised, !.context = g.context,
        !.chain_raised = g.chain_raised, !.chain_error = g.chain_error,
        !.trace = trace]

\* RAGPipeline.query(question, top_k, include_citations)
Query(question, top_k, include_citations) ==
    /\ pc = "idle"
    /\ pc' = "done"
    /\ UNCHANGED <<provider, config, threads, added, store>>
    /\ \E count_out \in StorageOutcomes :
         LET doc_count == GetDocumentCount(count_out, store)
         IN  IF IsEmptyIndex(doc_count)
             THEN /\ ret' = QueryReturn(question, include_citations, doc_count,
                                        [documents |-> <<>>, search_raised |-> FALSE], NoGeneration,
                                        RagText.NoDocumentsMessage, <<>>, <<"count">>)
                  /\ emb' = NoCall
                  /\ chat' = NoCall
                  /\ UNCHANGED <<using_fallback, chat_using_fallback, latched_by>>
             ELSE \E embed_out \in StoreEmbedOutcomes, engine_out \in StorageOutcomes,
                     ranking \in Rankings(Len(store)) :
                  \E r \in {RetrieveDocuments(question, top_k, embed_out,
                                 engine_out, ranking, provider, using_fallback,
                                 store)} :
                        /\ using_fallback' = r.using_fallback
                        /\ latched_by' = LatchedBy("embed_query", using_fallback, r)
                        /\ emb' = r.emb
                        /\ IF r.raised
                           THEN /\ ret' = QueryRaise(question, include_citations,
                                              doc_count, r, NoGeneration, r.error,
                                              <<"count">> \o r.trace)
                                /\ chat' = NoCall
                                /\ UNCHANGED chat_using_fallback
                           ELSE IF r.documents = <<>>
                           THEN /\ ret' = QueryReturn(question, include_citations,
                                              doc_count, r, NoGeneration,
                                              RagText.NoResultsMessage, <<>>,
                                              <<"count">> \o r.trace)
                                /\ chat' = NoCall
                                /\ UNCHANGED chat_using_fallback
                           ELSE \E chat_out \in {ReturnedText(<<" ","Y","e","s",".","\n">>),
                                                 Raised(PrimaryErrors.MsgApiKey),
                                                 Raised(PrimaryErrors.MsgRateLimit)} :
                                \E g \in {GenerateAnswer(question, r.documents,
                                               chat_out, provider,
                                               chat_using_fallback)} :
                                      /\ chat_using_fallback' = g.using_fallback
                                      /\ chat' = g.chat
                                      /\ ret' =
                                           IF g.raised
                                           THEN QueryRaise(question,
                                                    include_citations, doc_count,
                                                    r, g, g.error,
                                                    <<"count">> \o r.trace \o g.trace)
                                           ELSE QueryReturn(question,
                                                    include_citations, doc_count,
                                                    r, g,
                                                    WithCitations(g.answer,
                                                        r.documents,
                                                        include_citations),
                                                    r.documents,
                                                    <<"count">> \o r.trace \o g.trace)

\* what a store call returned, with the argument it was given
StoreReturn(op, input, raised, error, value) ==
    [Return(op, raised, error, value) EXCEPT !.input = input]

\* a collection that keeps one copy of a chunk it already holds
ChromaAddDocuments_Deduplicating(st, documents, vectors) ==
    LET fresh == SelectSeq([i \in 1..Len(documents) |->
                              [doc |-> documents[i], vec |-> vectors[i]]],
                          LAMBDA c : \A j \in 1..Len(st) : st[j].doc # c.doc)
    IN  st \o fresh

\* self._store.add_documents(documents): every chunk is written under a
\* new id, with its text, its metadata and the vector of its text
ChromaAddDocuments(st, documents, vectors) ==
    st \o [i \in 1..Len(documents) |-> [doc |-> documents[i], vec |-> vectors[i]]]

\* VectorStore.add_documents(documents): nothing to do for [], else the
\* texts are embedded and written and the store persisted; an error of any
\* of these is logged and raised again
AddDocuments(documents, embed_out, engine_out) ==
    /\ pc = "idle"
    /\ Len(store) + Len(documents) <= MaxStore
    /\ pc' = "done"
    /\ chat' = NoCall
    /\ UNCHANGED <<provider, config, threads, added, chat_using_fallback>>
    /\ IF documents = <<>>
       THEN /\ ret' = StoreReturn("add_documents", documents, FALSE, <<>>, <<>>)
            /\ emb' = NoCall
            /\ UNCHANGED <<using_fallback, latched_by, store>>
       ELSE \E texts \in {[i \in 1..Len(documents) |-> documents[i].page_content]} :
            \E e \in {ProviderEmbedDocuments(provider, texts, embed_out,
                                            using_fallback)} :
                /\ using_fallback' = e.using_fallback
                /\ latched_by' = LatchedBy("embed_documents", using_fallback, e)
                /\ emb' = WrapperCallOf(provider, "embed_documents", texts,
                                        embed_out, using_fallback, e)
                /\ IF e.raised
                   THEN /\ ret' = StoreReturn("add_documents", documents, TRUE,
                                              e.error, <<>>)
                        /\ UNCHANGED store
                   ELSE IF ~engine_out.ok
                   THEN /\ ret' = StoreReturn("add_documents", documents, TRUE,
                                              engine_out.msg, <<>>)
                        /\ UNCHANGED store
                   ELSE /\ store' = ChromaAddDocuments(store, documents, e.value)
                        /\ \E persist_out \in StorageOutcomes :
                             ret' = IF persist_out.ok
                                    THEN StoreReturn("add_documents", documents,
                                             FALSE, <<>>,
                                             [i \in 1..Len(documents) |->
                                                 Len(store) + i])
                                    ELSE StoreReturn("add_documents", documents,
                                             TRUE, persist_out.msg, <<>>)

\* a construction that starts from an empty collection
InitializeStore_Fresh(st, engine_out) ==
    [raised |-> ~engine_out.ok, error |-> engine_out.msg, store |-> <<>>]

\* VectorStore._initialize_store: the Chroma object is opened on the
\* persist directory and attaches to the collection "documents" as it is
\* there; an error is logged and raised again
InitializeStore(st, engine_out) ==
    [raised |-> ~engine_out.ok, error |-> engine_out.msg, store |-> st]

\* VectorStore.clear(): the chunks of the collection are deleted and the
\* store initialized again; an error of either is logged and raised again
Clear(engine_out) ==
    /\ pc = "idle"
    /\ pc' = "done"
    /\ emb' = NoCall
    /\ chat' = NoCall
    /\ UNCHANGED <<provider, config, threads, added,
                   using_fallback, chat_using_fallback, latched_by>>
    /\ IF engine_out.ok
       THEN \E init_out \in StorageOutcomes :
              \E i \in {InitializeStore(<<>>, init_out)} :
                /\ store' = i.store
                /\ ret' = Return("clear", i.raised, i.error, <<>>)
       ELSE /\ UNCHANGED store
            /\ ret' = Return("clear", TRUE, engine_out.msg, <<>>)

\* a list of the filename of every chunk, as stored
IndexedFiles_EveryChunk(st, engine_out) ==
    IF ~engine_out.ok THEN <<>>
    ELSE [i \in 1..Len(st) |-> st[i].doc.metadata.filename]

\* the value of get_indexed_files: the sorted list of the set of filenames
\* in the metadata of the collection, [] when the collection cannot be read
IndexedFiles(st, engine_out) ==
    IF ~engine_out.ok THEN <<>>
    ELSE SortedStrs({st[i].doc.metadata.filename : i \in 1..Len(st)})

\* VectorStore.get_indexed_files(): an error is logged, not raised
GetIndexedFiles(engine_out) ==
    /\ pc = "idle"
    /\ pc' = "done"
    /\ emb' = NoCall
    /\ chat' = NoCall
    /\ ret' = Return("get_indexed_files", FALSE, engine_out.msg,
                     IndexedFiles(store, engine_out))
    /\ UNCHANGED <<provider, config, threads, added,
                   using_fallback, chat_using_fallback, latched_by, store>>

\* VectorStore.get_document_count(): an error is logged, not raised
GetDocumentCountCall(count_out) ==
    /\ pc = "idle"
    /\ pc' = "done"
    /\ emb' = NoCall
    /\ chat' = NoCall
    /\ ret' = Return("get_document_count", FALSE, count_out.msg,
                     GetDocumentCount(count_out, store))
    /\ UNCHANGED <<provider, config, threads, added,
                   using_fallback, chat_using_fallback, latched_by, store>>

\* VectorStore.similarity_search(query, k, filter) called directly; k is
\* <<>> for None and <<n>> for the number n
Search(query, k, filter, embed_out, engine_out, ranking) ==
    /\ pc = "idle"
    /\ pc' = "done"
    /\ chat' = NoCall
    /\ UNCHANGED <<provider, config, threads, added, chat_using_fallback, store>>
    /\ \E s \in {SimilaritySearch(query, IF k = <<>> THEN 0 ELSE k[1], filter,
                                   embed_out, engine_out, ranking, provider,
                                   using_fallback, store)} :
         /\ using_fallback' = s.using_fallback
         /\ latched_by' = LatchedBy("embed_query", using_fallback, s)
         /\ emb' = s.emb
         /\ ret' = StoreReturn("similarity_search",
                               [query |-> query, k |-> k, filter |-> filter],
                               s.raised, s.error, s.documents)

\* VectorStore(config, embeddings): a new instance over the same persist
\* directory and the same embeddings object
Construct(engine_out) ==
    /\ pc = "idle"
    /\ pc' = "done"
    /\ emb' = NoCall
    /\ chat' = NoCall
    /\ UNCHANGED <<provider, config, threads, added,
                   using_fallback, chat_using_fallback, latched_by>>
    /\ \E i \in {InitializeStore(store, engine_out)} :
         /\ store' = i.store
         /\ ret' = Return("__init__", i.raised, i.error, <<>>)

\* the caller has taken the result
ReturnToCaller ==
    /\ pc = "done"
    /\ pc' = "idle"
    /\ emb' = NoCall
    /\ chat' = NoCall
    /\ ret' = NoReturn
    /\ UNCHANGED <<provider, config, threads, added,
                   using_fallback, chat_using_fallback, latched_by, store>>

Next ==
    \/ \E texts \in SeqsUpTo({<<"H","i">>, <<" ","h","i"," ">>,
                              <<"R","e","n","t">>}, 2),
          prim \in Outcomes :
            EmbedDocuments(texts, prim)
    \/ \E text \in {<<"H","i">>, <<" ","h","i"," ">>, <<"R","e","n","t">>},
          prim \in Outcomes :
            EmbedQuery(text, prim)
    \/ \E messages \in MessageLists,
          prim \in {ReturnedText(t) : t \in {<<" ","Y","e","s",".","\n">>, <<"N","o">>}}
                     \cup {Raised(m) : m \in ErrorMessages} :
            ChatCall(messages, prim)
    \/ \E documents \in SeqsUpTo(Chunks, MaxAdd), embed_out \in StoreEmbedOutcomes,
          engine_out \in StorageOutcomes :
            AddDocuments(documents, embed_out, engine_out)
    \/ \E engine_out \in StorageOutcomes : Clear(engine_out)
    \/ \E engine_out \in StorageOutcomes : Construct(engine_out)
    \/ \E engine_out \in StorageOutcomes : GetIndexedFiles(engine_out)
    \/ \E count_out \in StorageOutcomes : GetDocumentCountCall(count_out)
    \* a direct search with k None, 1 or 2, without a filter or with the
    \* metadata filter {"filename": "a.pdf"}
    \/ \E k \in {<<>>, <<1>>, <<2>>},
          filter \in {NoFilter, <<[key |-> "filename", value |-> FileA]>>},
          embed_out \in StoreEmbedOutcomes,
          engine_out \in StorageOutcomes, ranking \in Rankings(Len(store)) :
            Search(<<"H","i">>, k, filter, embed_out, engine_out, ranking)
    \* top_k 0 stands for None
    \/ \E question \in Questions, top_k \in {0, 1}, include_citations \in BOOLEAN :
            Query(question, top_k, include_citations)
    \/ ReturnToCaller

Spec ==
    Init /\ [][Next]_vars

\* ------------------------------------------------------------------------
\* Document ingestion
\* ------------------------------------------------------------------------

\* config.chunk_size, in characters, of the text splitter
ChunkSize ==
    3

\* config.chunk_overlap, in characters, of the text splitter
ChunkOverlap ==
    1

\* most files one ingest_multiple call is given
MaxFiles ==
    2

\* the position of the last c in s, 0 when there is none
LastIndexOf(s, c) ==
    LET at == {i \in 1..Len(s) : s[i] = c}
    IN  IF at = {} THEN 0 ELSE CHOOSE i \in at : \A j \in at : j <= i

\* Path(p).name: the last component of the path
PathName(p) ==
    SubSeq(p, LastIndexOf(p, "/") + 1, Len(p))

\* Path(p).suffix: from the last dot of the name, '' when the name has no
\* dot or only a leading or a trailing one
PathSuffix(p) ==
    LET name == PathName(p)
        dot  == LastIndexOf(name, ".")
    IN  IF 1 < dot /\ dot < Len(name) THEN SubSeq(name, dot, Len(name)) ELSE <<>>

\* DocumentIngestor.SUPPORTED_EXTENSIONS
SUPPORTED_EXTENSIONS ==
    {<<".","p","d","f">>, <<".","d","o","c","x">>, <<".","t","x","t">>,
     <<".","m","d">>, <<".","c","s","v">>}

\* is_supported comparing the suffix as written
IsSupported_CaseSensitive(filename) ==
    PathSuffix(filename) \in SUPPORTED_EXTENSIONS

\* DocumentIngestor.is_supported(filename)
IsSupported(filename) ==
    LET ext == Lower(PathSuffix(filename))
    IN  ext \in SUPPORTED_EXTENSIONS

\* the pieces of the text splitter before stripping: windows of chunk_size
\* characters, each starting chunk_size - chunk_overlap after the one before
RECURSIVE SplitWindows(_)
SplitWindows(text) ==
    IF Len(text) <= ChunkSize THEN <<text>>
    ELSE <<SubSeq(text, 1, ChunkSize)>>
           \o SplitWindows(SubSeq(text, ChunkSize - ChunkOverlap + 1, Len(text)))

\* self.text_splitter.split_documents([doc]): the pieces of the text in
\* order, stripped, none of them empty, each with a copy of the metadata
SplitDocuments(doc) ==
    LET pieces == SelectSeq([i \in 1..Len(SplitWindows(doc.page_content)) |->
                               Strip(SplitWindows(doc.page_content)[i])],
                            LAMBDA t : t # <<>>)
    IN  [i \in 1..Len(pieces) |->
            [page_content |-> pieces[i], metadata |-> doc.metadata]]

\* the concatenation of a sequence of sequences
RECURSIVE Flatten(_)
Flatten(lists) ==
    IF lists = <<>> THEN <<>> ELSE lists[1] \o Flatten(Tail(lists))

\* what a parser gives: the chunks, or the exception it raised again
Parsed(documents) ==
    [raised |-> FALSE, error |-> <<>>, documents |-> documents]

ParseFailed(error) ==
    [raised |-> TRUE, error |-> error, documents |-> <<>>]

\* str(e) of the exception of a parsing library on a file it cannot read
MsgParse ==
    <<"c","a","n","n","o","t"," ","p","a","r","s","e">>

\* "Unsupported file type: "
MsgUnsupported ==
    <<"U","n","s","u","p","p","o","r","t","e","d"," ","f","i","l","e"," ","t","y","p","e",":"," ">>

\* the chunks of one page of a PDF: none for a page without text, else the
\* pieces of the page's text, each tagged with the page number
PdfPageChunks(text, filename, page_num) ==
    IF Strip(text) = <<>> THEN <<>>
    ELSE LET chunks == SplitDocuments(Chunk(text, filename, <<"p","d","f">>, <<page_num>>))
         IN  [i \in 1..Len(chunks) |->
                 [chunks[i] EXCEPT !.metadata.page = <<page_num>>]]

\* _parse_pdf numbering the pages that have text
ParsePdf_NumberingPagesWithText(content, filename) ==
    IF ~content.ok THEN ParseFailed(MsgParse)
    ELSE LET with_text == SelectSeq(content.units, LAMBDA t : Strip(t) # <<>>)
         IN  Parsed(Flatten([p \in 1..Len(with_text) |->
                                PdfPageChunks(with_text[p], filename, p)]))

\* DocumentIngestor._parse_pdf(content, filename): the units of the content
\* are the texts of the pages
ParsePdf(content, filename) ==
    IF ~content.ok THEN ParseFailed(MsgParse)
    ELSE Parsed(Flatten([page_num \in 1..Len(content.units) |->
                            PdfPageChunks(content.units[page_num], filename, page_num)]))

\* DocumentIngestor._parse_docx(content, filename): the units of the
\* content are the texts of the paragraphs
ParseDocx(content, filename) ==
    IF ~content.ok THEN ParseFailed(MsgParse)
    ELSE LET text == Join(<<"\n">>,
                         SelectSeq(content.units, LAMBDA t : Strip(t) # <<>>))
             documents == SplitDocuments(Chunk(text, filename, <<"d","o","c","x">>, <<>>))
         IN  Parsed([i \in 1..Len(documents) |->
                        [documents[i] EXCEPT !.metadata.filename = filename,
                                             !.metadata.filetype = <<"d","o","c","x">>]])

\* DocumentIngestor._parse_text(content, filename): the units of the content
\* are the lines of the file; decoding ignores what it cannot decode
ParseText(content, filename) ==
    LET text == Join(<<"\n">>, content.units)
        \* Path(filename).suffix[1:]
        filetype == SubSeq(PathSuffix(filename), 2, Len(PathSuffix(filename)))
        documents == SplitDocuments(Chunk(text, filename, filetype, <<>>))
    IN  Parsed([i \in 1..Len(documents) |->
                   [documents[i] EXCEPT !.metadata.filename = filename,
                                        !.metadata.filetype = filetype]])

\* the row limit of _parse_csv
CsvMaxRows ==
    1000

\* the text _parse_csv builds: the units of the content are the rows, each
\* already in the form "col: val | col: val", under the one column "c"
CsvText(content, filename) ==
    LET rows == Len(content.units)
        max_rows == Min(rows, CsvMaxRows)
    IN  Join(<<"\n">>,
             <<<<"C","S","V"," ","F","i","l","e",":"," ">> \o filename,
               <<"C","o","l","u","m","n","s",":"," ">> \o <<"c">>,
               <<"R","o","w","s",":"," ">> \o IntToStr(rows),
               <<"\n","-","-","-"," ","D","a","t","a"," ","-","-","-","\n">>>>
             \o [idx \in 1..max_rows |->
                    <<"R","o","w"," ">> \o IntToStr(idx) \o <<":"," ">> \o content.units[idx]]
             \o (IF rows > max_rows
                 THEN <<<<"\n",".",".","."," ","a","n","d"," ">>
                          \o IntToStr(rows - max_rows)
                          \o <<" ","m","o","r","e"," ","r","o","w","s">>>>
                 ELSE <<>>))

\* DocumentIngestor._parse_csv(content, filename): the chunks carry the
\* numbers of rows and columns besides filename and filetype
ParseCsv(content, filename) ==
    IF ~content.ok THEN ParseFailed(MsgParse)
    ELSE LET base_doc ==
                 [page_content |-> CsvText(content, filename),
                  metadata |-> [filename |-> filename, filetype |-> <<"c","s","v">>,
                                page |-> <<>>, rows |-> Len(content.units),
                                columns |-> 1]]
             documents == SplitDocuments(base_doc)
         IN  Parsed([i \in 1..Len(documents) |->
                        [documents[i] EXCEPT !.metadata.filename = filename,
                                             !.metadata.filetype = <<"c","s","v">>]])

\* what ingest_file gives: the chunks or the exception, with the parsers
\* that ran
IngestResult(parsed, trace) ==
    [raised |-> parsed.raised, error |-> parsed.error,
     documents |-> parsed.documents, trace |-> trace]

\* the dispatch of ingest_file on ext, after the file was read
ParseByExtension(filename, ext, content) ==
    IF ~IsSupported(filename)
    THEN IngestResult(ParseFailed(MsgUnsupported \o ext), <<>>)
    ELSE IF ext = <<".","p","d","f">>
    THEN IngestResult(ParsePdf(content, filename), <<"_parse_pdf">>)
    ELSE IF ext = <<".","d","o","c","x">>
    THEN IngestResult(ParseDocx(content, filename), <<"_parse_docx">>)
    ELSE IF ext \in {<<".","t","x","t">>, <<".","m","d">>}
    THEN IngestResult(ParseText(content, filename), <<"_parse_text">>)
    ELSE IF ext = <<".","c","s","v">>
    THEN IngestResult(ParseCsv(content, filename), <<"_parse_csv">>)
    ELSE IngestResult(ParseFailed(MsgUnsupported \o ext), <<>>)

\* DocumentIngestor.ingest_file(file_path, file_obj, filename): f.file_path
\* and f.filename are <<>> for None, f.has_obj tells whether file_obj is
\* given, f.readable whether open(file_path) succeeds, f.content is what
\* the file holds
IngestFile(f) ==
    IF f.file_path # <<>>
    THEN IF ~f.readable
         THEN IngestResult(ParseFailed(<<"N","o"," ","s","u","c","h"," ","f","i","l","e">>), <<>>)
         ELSE ParseByExtension(IF f.filename # <<>> THEN f.filename
                               ELSE PathName(f.file_path),
                               Lower(PathSuffix(f.file_path)), f.content)
    ELSE IF f.has_obj /\ f.filename # <<>>
    THEN ParseByExtension(f.filename, Lower(PathSuffix(f.filename)), f.content)
    \* "Either file_path or (file_obj and filename) must be provided",
    \* abbreviated
    ELSE IngestResult(
             ParseFailed(<<"E","i","t","h","e","r"," ","f","i","l","e","_","p","a","t","h">>),
             <<>>)

\* the arguments of ingest_file(file_path=path)
PathInput(file) ==
    [file_path |-> file.file_path, has_obj |-> FALSE, filename |-> <<>>,
     readable |-> file.readable, content |-> file.content]

\* the arguments of ingest_file(file_obj=file_obj, filename=filename)
ObjectInput(file) ==
    [file_path |-> <<>>, has_obj |-> TRUE, filename |-> file.filename,
     readable |-> TRUE, content |-> file.content]

\* a Python list and a Python tuple
PyList(items) ==
    [type |-> "list", items |-> items]

PyTuple(items) ==
    [type |-> "tuple", items |-> items]

\* DocumentIngestor.ingest_multiple(file_paths, file_objects): the chunks of
\* the files that were ingested, in the order of the files; the exception
\* of a file is logged
IngestMultiple(file_paths, file_objects) ==
    LET Collect(from_paths, from_objects) ==
            PyList(Flatten([i \in 1..Len(from_paths) |-> from_paths[i].documents])
                   \o Flatten([i \in 1..Len(from_objects) |->
                                  from_objects[i].documents]))
    IN  Collect([i \in 1..Len(file_paths) |-> IngestFile(PathInput(file_paths[i]))],
                [i \in 1..Len(file_objects) |->
                    IngestFile(ObjectInput(file_objects[i]))])

\* documents, failed_files = ingestor.ingest_multiple(...): the names are
\* bound to the two items of a value of two items, any other length raises
UnpackTwo(value) ==
    IF Len(value.items) = 2
    THEN [raised |-> FALSE, error |-> <<>>,
          documents |-> value.items[1], failed_files |-> value.items[2]]
    ELSE [raised |-> TRUE,
          error |-> <<"v","a","l","u","e","s"," ","t","o"," ","u","n","p","a","c","k">>,
          documents |-> <<>>, failed_files |-> <<>>]

\* file names with a supported extension
SupportedNames ==
    {<<"a",".","p","d","f">>, <<"A",".","P","D","F">>, <<"n",".","t","x","t">>,
     <<"N",".","T","X","T">>, <<"r",".","m","d">>, <<"w",".","d","o","c","x">>,
     <<"d",".","c","s","v">>, <<"v",".","1",".","M","d">>}

\* file names with another extension or none
UnsupportedNames ==
    {<<"x",".","e","x","e">>, <<"p","d","f">>, <<"a",".","p","d","f",".","b","a","k">>}

\* most pages, paragraphs, lines or rows of a file
MaxUnits ==
    2

\* what a file holds: units the parsers can read, or nothing they can
FileContents ==
    {[ok |-> TRUE, units |-> u] :
        u \in SeqsUpTo({<<" ">>, <<"a","b">>, <<"c","d","e","f","g">>}, MaxUnits)}
      \cup {[ok |-> FALSE, units |-> <<>>]}

\* the arguments ingest_file is called with
IngestFileInputs ==
    {[file_path |-> <<>>, has_obj |-> TRUE, filename |-> n, readable |-> TRUE,
      content |-> c] : n \in SupportedNames \cup UnsupportedNames, c \in FileContents}
    \cup
    {[file_path |-> p, has_obj |-> FALSE, filename |-> n, readable |-> TRUE,
      content |-> c] :
        p \in SupportedNames \cup UnsupportedNames
                \cup {<<"i","n","/","a",".","p","d","f">>, <<"v",".","1","/","x">>},
        n \in {<<>>, <<"n",".","t","x","t">>, <<"x",".","e","x","e">>},
        c \in FileContents}
    \cup
    {[file_path |-> p, has_obj |-> FALSE, filename |-> <<>>, readable |-> FALSE,
      content |-> [ok |-> FALSE, units |-> <<>>]] :
        p \in {<<"a",".","p","d","f">>, <<"x",".","e","x","e">>}}
    \cup
    {[file_path |-> <<>>, has_obj |-> h, filename |-> n, readable |-> TRUE,
      content |-> [ok |-> TRUE, units |-> <<>>]] :
        h \in BOOLEAN, n \in {<<>>, <<"a",".","p","d","f">>}}

\* the files on disk of ingest_multiple(file_paths=...): a PDF of a blank
\* page and a page of two chunks, a text file of one line, a DOCX the parser
\* cannot read, a CSV that cannot be opened, a file of another type
BatchPaths ==
    {[file_path |-> f[1], readable |-> f[2], content |-> [ok |-> f[3], units |-> f[4]]] :
        f \in {<<<<"a",".","p","d","f">>, TRUE, TRUE, <<<<" ">>, <<"c","d","e","f","g">>>>>>,
               <<<<"n",".","t","x","t">>, TRUE, TRUE, <<<<"a","b">>>>>>,
               <<<<"w",".","d","o","c","x">>, TRUE, FALSE, <<>>>>,
               <<<<"d",".","c","s","v">>, FALSE, FALSE, <<>>>>,
               <<<<"x",".","e","x","e">>, TRUE, TRUE, <<<<"a","b">>>>>>}}

\* the uploaded files of ingest_multiple(file_objects=...)
BatchObjects ==
    {[filename |-> f[1], content |-> [ok |-> f[2], units |-> f[3]]] :
        f \in {<<<<"a",".","p","d","f">>, TRUE, <<<<" ">>, <<"c","d","e","f","g">>>>>>,
               <<<<"r",".","m","d">>, TRUE, <<<<"a","b">>>>>>,
               <<<<"w",".","d","o","c","x">>, FALSE, <<>>>>,
               <<<<"x",".","e","x","e">>, TRUE, <<<<"a","b">>>>>>}}

\* the two lists of one ingest_multiple call; <<>> stands for None and []
BatchInputs ==
    {b \in SeqsUpTo(BatchPaths, MaxFiles) \X SeqsUpTo(BatchObjects, MaxFiles) :
        Len(b[1]) + Len(b[2]) <= MaxFiles}

\* what an ingestion call returned, with its arguments and the parsers run
IngestReturn(op, input, raised, error, value, trace) ==
    [Return(op, raised, error, value) EXCEPT !.input = input, !.trace = trace]

\* ingestor.is_supported(filename)
IsSupportedCall(filename) ==
    /\ pc = "idle"
    /\ pc' = "done"
    /\ ret' = IngestReturn("is_supported", filename, FALSE, <<>>,
                           IsSupported(filename), <<>>)
    /\ UNCHANGED <<provider, config, threads, added,
                   using_fallback, chat_using_fallback, latched_by,
                   store, emb, chat>>

\* ingestor.ingest_file(...)
IngestFileCall(f) ==
    /\ pc = "idle"
    /\ pc' = "done"
    /\ \E r \in {IngestFile(f)} :
         ret' = IngestReturn("ingest_file", f, r.raised, r.error, r.documents,
                             r.trace)
    /\ UNCHANGED <<provider, config, threads, added,
                   using_fallback, chat_using_fallback, latched_by,
                   store, emb, chat>>

\* ingestor.ingest_multiple(file_paths=..., file_objects=...)
IngestMultipleCall(file_paths, file_objects) ==
    /\ pc = "idle"
    /\ pc' = "done"
    /\ ret' = IngestReturn("ingest_multiple",
                           [file_paths |-> file_paths, file_objects |-> file_objects],
                           FALSE, <<>>, IngestMultiple(file_paths, file_objects),
                           <<>>)
    /\ UNCHANGED <<provider, config, threads, added,
                   using_fallback, chat_using_fallback, latched_by,
                   store, emb, chat>>

\* documents, failed_files = ingestor.ingest_multiple(...) of
\* handle_file_upload, load_demo_documents and test_demo_ingestion
CallerUnpack(file_paths, file_objects) ==
    /\ pc = "idle"
    /\ pc' = "done"
    /\ \E u \in {UnpackTwo(IngestMultiple(file_paths, file_objects))} :
         ret' = IngestReturn("unpack",
                             [file_paths |-> file_paths,
                              file_objects |-> file_objects],
                             u.raised, u.error,
                             PyTuple(<<u.documents, u.failed_files>>), <<>>)
    /\ UNCHANGED <<provider, config, threads, added,
                   using_fallback, chat_using_fallback, latched_by,
                   store, emb, chat>>

IngestNext ==
    \/ \E filename \in SupportedNames \cup UnsupportedNames
                         \cup {<<"i","n","/","a",".","p","d","f">>, <<"v",".","1","/","x">>} :
            IsSupportedCall(filename)
    \/ \E f \in IngestFileInputs : IngestFileCall(f)
    \/ \E b \in BatchInputs : IngestMultipleCall(b[1], b[2])
    \/ \E b \in BatchInputs : CallerUnpack(b[1], b[2])
    \/ ReturnToCaller

IngestSpec ==
    Init /\ [][IngestNext]_vars

\* ------------------------------------------------------------------------
\* Citation formatting
\* ------------------------------------------------------------------------

\* the highest page number of a cited file
MaxPage ==
    11

\* _format_page_ranges(pages)
FormatPageRangesCall(pages) ==
    /\ pc = "idle"
    /\ pc' = "done"
    /\ ret' = StoreReturn("_format_page_ranges", pages, FALSE, <<>>,
                          FormatPageRanges(pages))
    /\ UNCHANGED <<provider, config, threads, added,
                   using_fallback, chat_using_fallback, latched_by,
                   store, emb, chat>>

\* most chunks a retrieval hands to the citation formatter
MaxCited ==
    3

\* the chunks cited: three files, one of them with an upper-case initial;
\* the first without a page or on page 1, 2 or 4, the second without a page
\* or on page 1, the third without a page
CitedChunks ==
    {Chunk(<<"x">>, FileA, "pdf", p) : p \in {<<>>, <<1>>, <<2>>, <<4>>}}
        \cup {Chunk(<<"x">>, <<"B",".","t","x","t">>, "pdf", p) : p \in {<<>>, <<1>>}}
        \cup {Chunk(<<"x">>, <<"c",".","m","d">>, "pdf", <<>>)}

\* format_citations(documents)
FormatCitationsCall(documents) ==
    /\ pc = "idle"
    /\ pc' = "done"
    /\ ret' = StoreReturn("format_citations", documents, FALSE, <<>>,
                          FormatCitations(documents))
    /\ UNCHANGED <<provider, config, threads, added,
                   using_fallback, chat_using_fallback, latched_by,
                   store, emb, chat>>

\* create_sources_section(documents)
CreateSourcesSectionCall(documents) ==
    /\ pc = "idle"
    /\ pc' = "done"
    /\ ret' = StoreReturn("create_sources_section", documents, FALSE, <<>>,
                          CreateSourcesSection(documents))
    /\ UNCHANGED <<provider, config, threads, added,
                   using_fallback, chat_using_fallback, latched_by,
                   store, emb, chat>>

CitationsNext ==
    \* the sorted page lists over 1..MaxPage
    \/ \E pages \in {SortedInts(S) : S \in SUBSET (1..MaxPage)} :
            FormatPageRangesCall(pages)
    \/ \E documents \in SeqsUpTo(CitedChunks, MaxCited) :
            FormatCitationsCall(documents)
    \/ \E documents \in SeqsUpTo(CitedChunks, MaxCited) :
            CreateSourcesSectionCall(documents)
    \/ ReturnToCaller

CitationsSpec ==
    Init /\ [][CitationsNext]_vars

\* ------------------------------------------------------------------------
\* Offline embedding vectors
\* ------------------------------------------------------------------------

\* the numbers of the vector _hash_to_embedding builds of a normalized text
\* for an instance of the given dimension.  One digest is taken per seed in
\* range(dimension // 32) of the bytes of "seed:text" and cut into four
\* unsigned integers; a value v of range 0..max becomes 2 * v / max - 1.
\* The digest is represented by a fixed function of the seed and the text
\* and an integer of eight bytes by one of one byte, so max is 255 and the
\* value is (2 * v - 255) / 255, which is never 0 as max is odd.  The list
\* is padded with 0.0 to the dimension and divided by its norm when that is
\* positive.  The vector is the record of the numerators and of the square
\* under which they stand: entry i is entries[i] / sqrt(over_sq).
HashVector(dimension, key) ==
    LET num_hashes == dimension \div 32
        RECURSIVE Weighted(_)
        Weighted(j) == IF j = 0 THEN 0 ELSE j * Ord(key[j]) + Weighted(j - 1)
        Numerator(n) ==
            2 * ((Weighted(Len(key)) + 31 * ((n - 1) \div 4) + 17 * ((n - 1) % 4)
                    + Len(key)) % 256) - 255
        RECURSIVE SumSq(_, _)
        SumSq(lo, hi) ==
            IF lo > hi THEN 0
            ELSE IF lo = hi THEN Numerator(lo) * Numerator(lo)
            ELSE SumSq(lo, (lo + hi) \div 2) + SumSq((lo + hi) \div 2 + 1, hi)
        Normalized(norm_sq) ==
            [entries |-> [n \in 1..dimension |->
                            IF n <= 4 * num_hashes THEN Numerator(n) ELSE 0],
             over_sq |-> IF norm_sq > 0 THEN norm_sq ELSE 255 * 255]
    IN  Normalized(SumSq(1, 4 * num_hashes))

\* OfflineFallbackEmbeddings(dimension).embed_query(text); the call returns
\* within the step, so that the next step is the next call on an instance
OfflineEmbedQueryCall(dimension, text) ==
    /\ pc = "idle"
    /\ ret' = StoreReturn("offline.embed_query",
                          [dimension |-> dimension, texts |-> <<text>>], FALSE, <<>>,
                          <<HashVector(dimension, OfflineEmbedQuery(text).key)>>)
    /\ UNCHANGED <<provider, config, threads, added,
                   using_fallback, chat_using_fallback, latched_by,
                   store, pc, emb, chat>>

\* OfflineFallbackEmbeddings(dimension).embed_documents(texts)
OfflineEmbedDocumentsCall(dimension, texts) ==
    /\ pc = "idle"
    /\ \E keyed \in {OfflineEmbedDocuments(texts)} :
         ret' = StoreReturn("offline.embed_documents",
                            [dimension |-> dimension, texts |-> texts], FALSE, <<>>,
                            [i \in 1..Len(texts) |->
                                HashVector(dimension, keyed[i].key)])
    /\ UNCHANGED <<provider, config, threads, added,
                   using_fallback, chat_using_fallback, latched_by,
                   store, pc, emb, chat>>

\* the fallback is constructed with a dimension below one digest block
\* (16), of one block (32), between blocks (40) and with the 1536 of the
\* model factory; the texts differ in case and in outer whitespace
OfflineNext ==
    \/ \E dimension \in {16, 32, 40, 1536},
          text \in {<<"H","i">>, <<"h","i">>, <<" ","H","I","\n">>, <<"P","T","O">>,
                    <<"p","t","o"," ">>, <<"a"," ","b">>, <<"A"," ","B">>, <<>>} :
            OfflineEmbedQueryCall(dimension, text)
    \/ \E dimension \in {16, 32, 40, 1536},
          texts \in SeqsUpTo({<<"H","i">>, <<" ","H","I","\n">>}, 2) :
            OfflineEmbedDocumentsCall(dimension, texts)

OfflineSpec ==
    Init /\ [][OfflineNext]_vars

\* ------------------------------------------------------------------------
\* Canned responder
\* ------------------------------------------------------------------------

\* DemoLLM()._generate_response(question, context); the call returns within
\* the step, so that the next step is the next call
GenerateResponseCall(question, context) ==
    /\ pc = "idle"
    /\ ret' = StoreReturn("_generate_response",
                          [question |-> question, context |-> context], FALSE, <<>>,
                          GenerateResponse(question, context))
    /\ UNCHANGED <<provider, config, threads, added,
                   using_fallback, chat_using_fallback, latched_by,
                   store, pc, emb, chat>>

\* DemoLLM()._call(messages) as the chain of generate_answer calls it: the
\* one message is the prompt of the template with the context of the
\* retrieved documents and the question
DemoChainCall(question, documents) ==
    /\ pc = "idle"
    /\ ret' = StoreReturn("demo._call",
                          [question |-> question, documents |-> documents], FALSE, <<>>,
                          DemoLLMCall(<<FormatPrompt(FormatContext(documents), question)>>))
    /\ UNCHANGED <<provider, config, threads, added,
                   using_fallback, chat_using_fallback, latched_by,
                   store, pc, emb, chat>>

DemoNext ==
    \* questions with a word of one group, of two groups, of none, in upper
    \* case, with "time off" written with a hyphen; contexts of 0, 1, 49 and
    \* 50 characters
    \/ \E question \in {<<"P","T","O","?">>, <<"t","i","m","e"," ","o","f","f">>,
                          <<"t","i","m","e","-","o","f","f">>,
                          <<"s","a","l","e","s"," ","l","e","a","v","e">>,
                          <<"Q","4">>, <<"q","u","a","r","t","e","r">>,
                          <<"r","e","n","t"," ","s","t","a","f","f">>,
                          <<"H","R"," ","l","e","g","a","l">>,
                          <<"r","i","s","k"," ","l","e","a","s","e">>,
                          <<"s","t","a","f","f">>, <<"H","i">>, <<>>},
          context \in {[i \in 1..n |-> "x"] : n \in {0, 1, 49, 50}} :
            GenerateResponseCall(question, context)
    \/ \E question \in Questions, documents \in RetrievedLists :
            DemoChainCall(question, documents)

DemoSpec ==
    Init /\ [][DemoNext]_vars

\* ------------------------------------------------------------------------
\* Configuration and construction
\* ------------------------------------------------------------------------

\* the messages of the ValueError of Config: openai_api_key ('OPENAI_API_KEY
\* environment variable is required when using OpenAI provider.') and
\* validate ('Invalid model provider: azure')
ConfigErrors ==
    [key_required |->
        <<"O","P","E","N","A","I","_","A","P","I","_","K","E","Y"," ","e","n",
          "v","i","r","o","n","m","e","n","t"," ","v","a","r","i","a","b","l",
          "e"," ","i","s"," ","r","e","q","u","i","r","e","d"," ","w","h","e",
          "n"," ","u","s","i","n","g"," ","O","p","e","n","A","I"," ","p","r",
          "o","v","i","d","e","r",".">>,
     invalid_provider |->
        <<"I","n","v","a","l","i","d"," ","m","o","d","e","l"," ","p","r","o",
          "v","i","d","e","r",":"," ","a","z","u","r","e">>]

\* ModelFactory: 'Unsupported provider: azure'; the client library refusing a
\* model without a key: 'Did not find openai_api_key'
FactoryErrors ==
    [MsgUnsupportedProvider |->
        <<"U","n","s","u","p","p","o","r","t","e","d"," ","p","r","o","v","i","d",
          "e","r",":"," ","a","z","u","r","e">>,
     MsgClientNoKey |->
        <<"D","i","d"," ","n","o","t"," ","f","i","n","d"," ","o","p","e","n","a",
          "i","_","a","p","i","_","k","e","y">>]

\* the API answers a request that carries no key: "Error code: 401 - You
\* didn't provide an API key."
MsgNoApiKey ==
    <<"E","r","r","o","r"," ","c","o","d","e",":"," ","4","0","1"," ","-"," ",
      "Y","o","u"," ","d","i","d","n","'","t"," ","p","r","o","v","i","d","e",
      " ","a","n"," ","A","P","I"," ","k","e","y",".">>

\* Config.openai_api_key: the key of the environment, '' when there is
\* none; it is required when the provider of the configuration is openai
OpenaiApiKey(cfg) ==
    IF cfg.openai_api_key = <<>> /\ cfg.model_provider = "openai"
    THEN [raised |-> TRUE, error |-> ConfigErrors.key_required, value |-> <<>>]
    ELSE [raised |-> FALSE, error |-> <<>>, value |-> cfg.openai_api_key]

\* Config.validate(): the message of the ValueError, <<>> when none is raised
Validate(cfg) ==
    IF cfg.model_provider \notin {"openai", "ollama"}
    THEN ConfigErrors.invalid_provider
    ELSE IF cfg.model_provider = "openai"
    THEN OpenaiApiKey(cfg).error
    ELSE <<>>

\* ModelFactory.create_chat_model / create_embeddings(provider): provider
\* "" stands for None; the OpenAI model is given api_key=config.openai_api_key
\* and wrapped, and client_accepts tells whether the client library builds
\* a model whose key is ''
CreateModel(cfg, provider_arg, client_accepts) ==
    LET selected == IF provider_arg = "" THEN cfg.model_provider ELSE provider_arg
        Result(raised, error) ==
            [raised |-> raised, error |-> error, provider |-> selected]
        OpenAI(key) ==
            IF key.raised THEN Result(TRUE, key.error)
            ELSE IF key.value = <<>> /\ ~client_accepts
            THEN Result(TRUE, FactoryErrors.MsgClientNoKey)
            ELSE Result(FALSE, <<>>)
    IN  IF selected = "openai" THEN OpenAI(OpenaiApiKey(cfg))
        ELSE IF selected = "ollama" THEN Result(FALSE, <<>>)
        ELSE Result(TRUE, FactoryErrors.MsgUnsupportedProvider)

\* what the primary of the provider can do in a request: without a key
\* every request of the OpenAI models is answered with the 401 of the API
PrimaryOutcomesWith(prov, cfg, outcomes) ==
    IF prov = "openai" /\ cfg.openai_api_key = <<>>
    THEN {Raised(MsgNoApiKey)}
    ELSE outcomes

\* RAGPipeline(config, vector_store, provider), over a vector store whose
\* embeddings are those of create_embeddings(config, provider)
PipelineInit(provider_arg, client_accepts) ==
    /\ pc = "start"
    /\ \E m \in {CreateModel(config, provider_arg, client_accepts)} :
         /\ ret' = StoreReturn("RAGPipeline.__init__", provider_arg, m.raised,
                               m.error, <<>>)
         /\ provider' = IF m.raised THEN provider ELSE m.provider
         /\ pc' = IF m.raised THEN "exited" ELSE "idle"
    /\ UNCHANGED <<config, threads, added, using_fallback, chat_using_fallback,
                   latched_by, store, emb, chat>>

\* scripts/ingest_cli.py main() with --provider args_provider ("" when the
\* option is not given) and the chunks ingest_multiple returned: the
\* configuration is validated, the embeddings created, the chunks added;
\* any exception is logged and the process exits
IngestCliMain(args_provider, client_accepts, documents, embed_out, engine_out) ==
    /\ pc = "start"
    /\ pc' = "exited"
    /\ UNCHANGED <<provider, config, threads, added,
                   using_fallback, chat_using_fallback,
                   latched_by, chat>>
    /\ \E invalid \in {Validate(config)},
          m \in {CreateModel(config, args_provider, client_accepts)} :
         IF invalid # <<>> \/ m.raised \/ documents = <<>>
         THEN /\ ret' = StoreReturn("ingest_cli.main", args_provider,
                            invalid # <<>> \/ m.raised,
                            IF invalid # <<>> THEN invalid ELSE m.error, <<>>)
              /\ emb' = NoCall
              /\ UNCHANGED store
         ELSE /\ embed_out \in PrimaryOutcomesWith(m.provider, config,
                                                   StoreEmbedOutcomes)
              /\ \E texts \in {[i \in 1..Len(documents) |->
                                  documents[i].page_content]} :
                 \E e \in {ProviderEmbedDocuments(m.provider, texts, embed_out,
                                                 FALSE)} :
                   /\ emb' = WrapperCallOf(m.provider, "embed_documents", texts,
                                           embed_out, FALSE, e)
                   /\ ret' = StoreReturn("ingest_cli.main", args_provider,
                                 e.raised \/ ~engine_out.ok,
                                 IF e.raised THEN e.error ELSE engine_out.msg,
                                 <<>>)
                   /\ store' = IF e.raised \/ ~engine_out.ok THEN store
                               ELSE ChromaAddDocuments(store, documents, e.value)

\* the process before anything is constructed: a configuration file and an
\* environment; "azure" is a provider name the program does not know
ConfigInit ==
    /\ config \in [model_provider : {"openai", "ollama", "azure"},
                   openai_api_key : {<<>>, <<"s","k">>}]
    /\ provider = "none"
    /\ threads = [t \in Threads |-> IdleThread]
    /\ added = <<>>
    /\ using_fallback = FALSE
    /\ chat_using_fallback = FALSE
    /\ latched_by = "none"
    /\ store = <<>>
    /\ pc = "start"
    /\ emb = NoCall
    /\ chat = NoCall
    /\ ret = NoReturn

ConfigNext ==
    \/ \E provider_arg \in {"", "openai", "ollama", "azure"},
          client_accepts \in BOOLEAN :
            PipelineInit(provider_arg, client_accepts)
    \/ \E args_provider \in {"", "openai", "ollama"}, client_accepts \in BOOLEAN,
          documents \in SeqsUpTo(Chunks, 1),
          embed_out \in StoreEmbedOutcomes \cup {Raised(MsgNoApiKey)},
          engine_out \in StorageOutcomes :
            IngestCliMain(args_provider, client_accepts, documents, embed_out,
                          engine_out)
    \/ \E c \in Chunks,
          embed_out \in PrimaryOutcomesWith(provider, config, StoreEmbedOutcomes),
          engine_out \in StorageOutcomes :
            AddDocuments(<<c>>, embed_out, engine_out)
    \/ \E embed_out \in PrimaryOutcomesWith(provider, config, StoreEmbedOutcomes),
          engine_out \in StorageOutcomes, ranking \in Rankings(Len(store)) :
            Search(<<"H","i">>, <<>>, NoFilter, embed_out, engine_out, ranking)
    \/ \E messages \in MessageLists,
          prim \in PrimaryOutcomesWith(provider, config,
                      {ReturnedText(<<"N","o">>), Raised(PrimaryErrors.MsgConnection),
                       Raised(PrimaryErrors.MsgApiKey), Raised(PrimaryErrors.MsgRateLimit)}) :
            ChatCall(messages, prim)
    \* query draws the outcomes of the models itself; they are those of
    \* models that have a key
    \/ /\ provider = "ollama" \/ config.openai_api_key # <<>>
       /\ \E question \in Questions : Query(question, 0, TRUE)
    \/ ReturnToCaller

ConfigSpec ==
    ConfigInit /\ [][ConfigNext]_vars

\* ------------------------------------------------------------------------
\* Concurrent callers
\* ------------------------------------------------------------------------

\* the flag of the wrapper a call goes through: ResilientChatModel.
\* _using_fallback for _call, ResilientEmbeddings.using_fallback otherwise
FlagOf(op) ==
    IF op = "_call" THEN chat_using_fallback ELSE using_fallback

\* where a call continues once it has its vectors or its text: the store
\* is written, the engine queried, or the wrapper returns
AfterModel(op) ==
    IF op = "add_documents" THEN "write"
    ELSE IF op = "similarity_search" THEN "read"
    ELSE "done"

\* a caller enters a method. clear starts with the delete, the reads with
\* the engine; the others reach the wrapper of the provider, whose first
\* statement tests the flag: if self.using_fallback
ThreadBegin(t, op, input) ==
    /\ pc = "idle"
    /\ threads[t].pc = "idle"
    /\ threads' = [threads EXCEPT ![t] =
          [IdleThread EXCEPT !.op = op, !.input = input,
              !.pc = IF op = "clear" THEN "delete"
                     ELSE IF op \in {"get_document_count", "get_indexed_files"}
                     THEN "read"
                     ELSE IF provider = "openai" /\ FlagOf(op)
                     THEN "fallback"
                     ELSE "primary"]]
    /\ UNCHANGED <<provider, config, added, using_fallback, chat_using_fallback,
                   latched_by, store, pc, emb, chat, ret>>

\* self.primary.embed_documents / embed_query / _call is invoked and behaves
\* as prim; in the except clause the keyword test of the wrapper decides
\* between the latch and raise
ThreadPrimary(t, prim) ==
    /\ threads[t].pc = "primary"
    /\ \E c \in {[threads[t] EXCEPT !.prim = prim,
                     !.at_primary = IF FlagOf(threads[t].op) THEN "set" ELSE "clear"]} :
         threads' = [threads EXCEPT ![t] =
            IF prim.ok
            THEN [c EXCEPT !.pc = AfterModel(c.op),
                     !.value = IF c.op = "_call" THEN prim.text
                               ELSE IF c.op = "similarity_search"
                               THEN PrimaryEmbedQuery(c.input)
                               ELSE PrimaryEmbedDocuments(
                                        [i \in 1..Len(c.input) |->
                                            c.input[i].page_content])]
            ELSE IF /\ provider = "openai"
                    /\ IF c.op = "_call"
                       THEN IsChatAuthOrNetworkError(Lower(prim.msg))
                       ELSE IsEmbeddingNetworkError(Lower(prim.msg))
            THEN [c EXCEPT !.pc = "latch"]
            ELSE [c EXCEPT !.pc = "done", !.raised = TRUE, !.error = prim.msg]]
    /\ UNCHANGED <<provider, config, added, using_fallback, chat_using_fallback,
                   latched_by, store, pc, emb, chat, ret>>

\* self.using_fallback = True / self._using_fallback = True
ThreadLatch(t) ==
    /\ threads[t].pc = "latch"
    /\ threads' = [threads EXCEPT ![t] =
          [@ EXCEPT !.pc = "fallback",
              !.latch_over = IF FlagOf(threads[t].op) THEN "set" ELSE "clear"]]
    /\ IF threads[t].op = "_call"
       THEN /\ chat_using_fallback' = TRUE
            /\ UNCHANGED <<using_fallback, latched_by>>
       ELSE /\ using_fallback' = TRUE
            /\ latched_by' = IF using_fallback THEN latched_by
                             ELSE IF threads[t].op = "similarity_search"
                             THEN "embed_query"
                             ELSE "embed_documents"
            /\ UNCHANGED chat_using_fallback
    /\ UNCHANGED <<provider, config, added, store, pc, emb, chat, ret>>

\* return self.fallback.embed_documents(texts) / embed_query(text) /
\* self._fallback._call(messages)
ThreadFallback(t) ==
    /\ threads[t].pc = "fallback"
    /\ \E c \in {threads[t]} :
         threads' = [threads EXCEPT ![t] =
            [c EXCEPT !.pc = AfterModel(c.op),
                !.value = IF c.op = "_call" THEN DemoLLMCall(c.input)
                          ELSE IF c.op = "similarity_search"
                          THEN OfflineEmbedQuery(c.input)
                          ELSE OfflineEmbedDocuments(
                                   [i \in 1..Len(c.input) |->
                                       c.input[i].page_content])]]
    /\ UNCHANGED <<provider, config, added, using_fallback, chat_using_fallback,
                   latched_by, store, pc, emb, chat, ret>>

\* VectorStore.add_documents after the embedding: the chunks are written
\* with their vectors and the store is persisted
ThreadWrite(t, engine_out, persist_out) ==
    /\ threads[t].pc = "write"
    /\ Len(store) + Len(threads[t].input) <= MaxStore
    /\ \E c \in {[threads[t] EXCEPT !.pc = "done", !.engine = engine_out]} :
         IF engine_out.ok
         THEN /\ store' = ChromaAddDocuments(store, c.input, c.value)
              /\ added' = added \o c.input
              /\ threads' = [threads EXCEPT ![t] =
                   IF persist_out.ok
                   THEN [c EXCEPT !.value = [i \in 1..Len(c.input) |->
                                                Len(store) + i]]
                   ELSE [c EXCEPT !.raised = TRUE, !.error = persist_out.msg,
                                  !.value = <<>>]]
         ELSE /\ threads' = [threads EXCEPT ![t] =
                   [c EXCEPT !.raised = TRUE, !.error = engine_out.msg,
                             !.value = <<>>]]
              /\ UNCHANGED <<store, added>>
    /\ UNCHANGED <<provider, config, using_fallback, chat_using_fallback,
                   latched_by, pc, emb, chat, ret>>

\* the engine is read: collection.count(), collection.get(include=
\* ['metadatas']) or the query of similarity_search with k None
ThreadRead(t, engine_out, ranking) ==
    /\ threads[t].pc = "read"
    /\ \E c \in {[threads[t] EXCEPT !.pc = "done", !.engine = engine_out]} :
         threads' = [threads EXCEPT ![t] =
            IF c.op = "get_document_count"
            THEN [c EXCEPT !.value = GetDocumentCount(engine_out, store)]
            ELSE IF c.op = "get_indexed_files"
            THEN [c EXCEPT !.value = IndexedFiles(store, engine_out)]
            ELSE IF ~engine_out.ok
            THEN [c EXCEPT !.raised = TRUE, !.error = engine_out.msg,
                           !.value = <<>>]
            ELSE [c EXCEPT !.value =
                     LET hits == NearestMatching(store, ranking, EffectiveK(0),
                                                 NoFilter)
                     IN  [i \in 1..Len(hits) |-> store[hits[i]].doc]]]
    /\ UNCHANGED <<provider, config, added, using_fallback, chat_using_fallback,
                   latched_by, store, pc, emb, chat, ret>>

\* VectorStore.clear: collection.delete()
ThreadDelete(t, engine_out) ==
    /\ threads[t].pc = "delete"
    /\ IF engine_out.ok
       THEN /\ store' = <<>>
            /\ added' = <<>>
            /\ threads' = [threads EXCEPT ![t] =
                  [@ EXCEPT !.pc = "initialize", !.engine = engine_out]]
       ELSE /\ threads' = [threads EXCEPT ![t] =
                  [@ EXCEPT !.pc = "done", !.engine = engine_out,
                            !.raised = TRUE, !.error = engine_out.msg]]
            /\ UNCHANGED <<store, added>>
    /\ UNCHANGED <<provider, config, using_fallback, chat_using_fallback,
                   latched_by, pc, emb, chat, ret>>

\* VectorStore.clear: self._initialize_store(), after which clear returns
ThreadInitialize(t, init_out) ==
    /\ threads[t].pc = "initialize"
    /\ \E i \in {InitializeStore(store, init_out)} :
         /\ store' = i.store
         /\ added' = IF i.raised THEN added ELSE <<>>
         /\ threads' = [threads EXCEPT ![t] =
               [@ EXCEPT !.pc = "done", !.engine = init_out,
                         !.raised = i.raised, !.error = i.error]]
    /\ UNCHANGED <<provider, config, using_fallback, chat_using_fallback,
                   latched_by, pc, emb, chat, ret>>

\* the caller has taken the result of its call
ThreadReturn(t) ==
    /\ threads[t].pc = "done"
    /\ threads' = [threads EXCEPT ![t] = IdleThread]
    /\ UNCHANGED <<provider, config, added, using_fallback, chat_using_fallback,
                   latched_by, store, pc, emb, chat, ret>>

ThreadsNext ==
    \E t \in Threads :
        \/ \E op \in {"clear", "get_document_count", "get_indexed_files"} :
              ThreadBegin(t, op, <<>>)
        \/ ThreadBegin(t, "_call", <<<<"P","T","O","?">>>>)
        \/ ThreadBegin(t, "similarity_search", <<"H","i">>)
        \/ ThreadBegin(t, "add_documents",
                       <<Chunk(<<"H","i">>, FileA, "pdf", <<1>>)>>)
        \/ \E prim \in {ReturnedText(<<"N","o">>), Raised(PrimaryErrors.MsgConnection),
                        Raised(PrimaryErrors.MsgRateLimit)} :
              ThreadPrimary(t, prim)
        \/ ThreadLatch(t)
        \/ ThreadFallback(t)
        \/ \E engine_out \in StorageOutcomes, persist_out \in StorageOutcomes :
              ThreadWrite(t, engine_out, persist_out)
        \/ \E engine_out \in StorageOutcomes, ranking \in Rankings(Len(store)) :
              ThreadRead(t, engine_out, ranking)
        \/ \E engine_out \in StorageOutcomes : ThreadDelete(t, engine_out)
        \/ \E init_out \in StorageOutcomes : ThreadInitialize(t, init_out)
        \/ ThreadReturn(t)

ThreadsSpec ==
    Init /\ [][ThreadsNext]_vars

\* ------------------------------------------------------------------------
\* Properties
\* ------------------------------------------------------------------------

\* the markers of a timeout, a resolution failure, a connection error, a network
\* error and a failed fetch of the tokenizer's resources
ConnectivityMarkers ==
    {
      <<"t","i","m","e","o","u","t">>,
      <<"f","a","i","l","e","d"," ","t","o"," ","r","e","s","o","l","v","e">>,
      <<"c","o","n","n","e","c","t","i","o","n">>,
      <<"n","e","t","w","o","r","k">>,
      <<"t","i","k","t","o","k","e","n">>,
      <<"c","l","1","0","0","k","_","b","a","s","e">>,
      <<"o","p","e","n","a","i","p","u","b","l","i","c",".","b","l","o","b",".","c","o","r","e",
        ".","w","i","n","d","o","w","s",".","n","e","t">>
    }

\* the markers of an authorization or network error of the chat model
AuthNetworkMarkers ==
    {
      <<"a","p","i"," ","k","e","y">>,
      <<"a","p","i","_","k","e","y">>,
      <<"a","u","t","h","e","n","t","i","c","a","t","i","o","n">>,
      <<"u","n","a","u","t","h","o","r","i","z","e","d">>,
      <<"4","0","1">>,
      <<"c","o","n","n","e","c","t","i","o","n">>,
      <<"n","e","t","w","o","r","k">>,
      <<"t","i","m","e","o","u","t">>,
      <<"f","a","i","l","e","d"," ","t","o"," ","r","e","s","o","l","v","e">>,
      <<"d","n","s">>,
      <<"n","a","m","e"," ","r","e","s","o","l","u","t","i","o","n">>
    }

\* the lower-cased message contains one of the markers
MentionsMarker(msg, markers) ==
    \E m \in markers : Contains(Lower(msg), m)

\* the positions of a collaborator in the trace of a query
Positions(trace, name) ==
    {i \in 1..Len(trace) : trace[i] = name}

EmbeddingOps ==
    {"embed_documents", "embed_query"}

\* the embedding wrapper was called, not latched, and its primary raised
EmbedPrimaryRaised ==
    /\ emb.op \in EmbeddingOps
    /\ ~emb.before
    /\ ~emb.prim.ok

\* the chat wrapper was called, not latched, and its primary raised
ChatPrimaryRaised ==
    /\ chat.op = "_call"
    /\ ~chat.before
    /\ ~chat.prim.ok

\* what the offline fallback returns for the input of the last embedding call
OfflineValueOfCall ==
    IF emb.op = "embed_documents"
    THEN [i \in 1..Len(emb.input) |->
             [path |-> "offline", key |-> Strip(Lower(emb.input[i]))]]
    ELSE [path |-> "offline", key |-> Strip(Lower(emb.input))]

\* C1: both flags are false at construction; a flag becomes true only in a
\* call whose primary was invoked and raised an error carrying a marker; a
\* flag that is true stays true.
C1_LatchOneWay ==
    /\ using_fallback = FALSE
    /\ chat_using_fallback = FALSE
    /\ [][/\ using_fallback => using_fallback'
          /\ chat_using_fallback => chat_using_fallback'
          /\ (~using_fallback /\ using_fallback') =>
                /\ emb'.op \in EmbeddingOps
                /\ emb'.primary_calls = 1
                /\ ~emb'.prim.ok
                /\ MentionsMarker(emb'.prim.msg, ConnectivityMarkers)
          /\ (~chat_using_fallback /\ chat_using_fallback') =>
                /\ chat'.op = "_call"
                /\ chat'.primary_calls = 1
                /\ ~chat'.prim.ok
                /\ MentionsMarker(chat'.prim.msg, AuthNetworkMarkers)]_vars

\* one query latched both wrappers, each on an error of its primary
C1_Witness ==
    /\ using_fallback /\ chat_using_fallback
    /\ EmbedPrimaryRaised /\ emb.after
    /\ ChatPrimaryRaised /\ chat.after

\* C2: a call made on a latched wrapper is answered by the fallback alone and
\* never invokes the primary, whatever the primary would do; the flag set by
\* embed_documents holds for embed_query and the other way round.
C2_LatchedSkipsPrimary ==
    [][/\ (using_fallback /\ emb'.op \in EmbeddingOps) =>
             /\ emb'.primary_calls = 0
             /\ emb'.fallback_calls = 1
             /\ ~emb'.raised
             /\ emb'.value =
                  IF emb'.op = "embed_documents"
                  THEN OfflineEmbedDocuments(emb'.input)
                  ELSE OfflineEmbedQuery(emb'.input)
       /\ (chat_using_fallback /\ chat'.op = "_call") =>
             /\ chat'.primary_calls = 0
             /\ chat'.fallback_calls = 1
             /\ ~chat'.raised
             /\ chat'.value = DemoLLMCall(chat'.input)]_vars

\* embed_query on a wrapper that embed_documents latched, the primary ready
\* to succeed again
C2_Witness ==
    /\ latched_by = "embed_documents"
    /\ emb.op = "embed_query"
    /\ emb.before
    /\ emb.prim.ok
    /\ emb.primary_calls = 0

C4_OtherErrorPropagates ==
    /\ [](EmbedPrimaryRaised /\ ~MentionsMarker(emb.prim.msg, ConnectivityMarkers)
            => /\ emb.raised
               /\ emb.error = emb.prim.msg
               /\ emb.fallback_calls = 0
               /\ ~emb.after
               /\ ~using_fallback
               /\ (ret.op \in EmbeddingOps => ret.raised /\ ret.error = emb.prim.msg))
    /\ [][(~using_fallback /\ emb'.op \in EmbeddingOps)
            => emb'.primary_calls = 1]_vars

\* embed_query raised the primary's "Rate limit exceeded"
C4_Witness ==
    /\ EmbedPrimaryRaised
    /\ emb.op = "embed_query"
    /\ emb.prim.msg = PrimaryErrors.MsgRateLimit
    /\ ret.op = "embed_query"
    /\ ret.raised
    /\ ~using_fallback

\* C5: when the primary chat model raises an error carrying an auth/network
\* marker, _call latches and returns the canned answer for the same messages;
\* for any other error the error is raised unchanged, the fallback is not
\* called and the flag stays false.
C5_ChatFallbackRule ==
    /\ (ChatPrimaryRaised /\ MentionsMarker(chat.prim.msg, AuthNetworkMarkers)) =>
          /\ chat.after
          /\ chat_using_fallback
          /\ ~chat.raised
          /\ chat.fallback_calls = 1
          /\ chat.value = DemoLLMCall(chat.input)
          /\ chat.value \in {Responses.VacationResponse, Responses.SalesResponse, Responses.LeaseResponse,
                             Responses.RiskResponse, Responses.EmployeeResponse, Responses.ApologyResponse,
                             Responses.GenericResponse}
    /\ (ChatPrimaryRaised /\ ~MentionsMarker(chat.prim.msg, AuthNetworkMarkers)) =>
          /\ chat.raised
          /\ chat.error = chat.prim.msg
          /\ chat.fallback_calls = 0
          /\ ~chat.after
          /\ ~chat_using_fallback

\* _call latched on "Incorrect API key" and answered the PTO question with
\* the vacation text
C5_Witness ==
    /\ ChatPrimaryRaised
    /\ chat.prim.msg = PrimaryErrors.MsgApiKey
    /\ ret.op = "_call"
    /\ ret.value = Responses.VacationResponse
    /\ chat_using_fallback

\* the "Sources:" header without its leading blank lines
SourcesWord ==
    SubSeq(CitationText.SourcesHeader, 3, 10)

\* C6: a query on an empty index returns the "no documents indexed" message
\* and no chunks, and invokes neither the search, nor the embedding model,
\* nor the chat model.
C6_EmptyIndexShortCircuits ==
    (ret.op = "query" /\ Len(store) = 0) =>
        /\ ~ret.raised
        /\ ret.answer = RagText.NoDocumentsMessage
        /\ ret.documents = <<>>
        /\ ret.trace = <<"count">>
        /\ emb = NoCall
        /\ chat = NoCall

\* a query with citations on the empty index, both wrappers still unlatched
C6_Witness ==
    /\ ret.op = "query"
    /\ Len(store) = 0
    /\ ret.include_citations
    /\ ret.answer = RagText.NoDocumentsMessage
    /\ provider = "openai"

\* C7: when the search raises, query raises nothing, returns the "could not
\* find relevant information" message with no chunks, and does not invoke
\* the chat model.
C7_SearchErrorIsNoResults ==
    (ret.op = "query" /\ ret.search_raised) =>
        /\ ~ret.raised
        /\ ret.answer = RagText.NoResultsMessage
        /\ ret.documents = <<>>
        /\ Positions(ret.trace, "chat") = {}
        /\ chat = NoCall

\* the resilient wrapper raised the primary's error again inside the search
C7_Witness ==
    /\ ret.op = "query"
    /\ ret.search_raised
    /\ emb.op = "embed_query"
    /\ emb.raised
    /\ emb.error = PrimaryErrors.MsgRateLimit
    /\ ret.answer = RagText.NoResultsMessage

\* C8: when the chain of generate_answer raises, query raises nothing, the
\* generated answer is "Error generating answer: " followed by the cause, and
\* query returns the retrieved chunks.
C8_GenerationErrorInBand ==
    /\ (ret.op = "query" /\ Positions(ret.trace, "chat") # {}) => ~ret.raised
    /\ (ret.op = "query" /\ ret.chain_raised) =>
          /\ ret.generated = RagText.ErrorAnswerPrefix \o ret.chain_error
          /\ StartsWith(ret.answer, RagText.ErrorAnswerPrefix \o ret.chain_error)
          /\ ret.documents = ret.retrieved
          /\ ret.documents # <<>>

\* the resilient chat wrapper raised "Rate limit exceeded" again and query
\* returned it in the answer with two chunks
C8_Witness ==
    /\ ret.op = "query"
    /\ ret.chain_raised
    /\ chat.raised
    /\ chat.error = PrimaryErrors.MsgRateLimit
    /\ ret.chain_error = PrimaryErrors.MsgRateLimit
    /\ Len(ret.documents) = 2
    /\ ~ret.raised

\* the context block of documents, one part per document in list order
ContextInOrder(documents) ==
    Join(RagText.ContextDivider,
         [i \in 1..Len(documents) |->
            RagText.SourceOpen \o documents[i].metadata.filename
              \o (IF documents[i].metadata.page # <<>>
                  THEN RagText.PageLabel \o IntToStr(documents[i].metadata.page[1])
                  ELSE <<>>)
              \o <<"]", "\n">> \o documents[i].page_content \o <<"\n">>])

\* C9: a query invokes the chat model once if the index is not empty and
\* retrieval returned a chunk, and not at all otherwise; the chat model is
\* invoked after the search; with the chat model invoked the returned chunks
\* are the retrieved chunks in their order and the context lists them in that
\* order, otherwise no chunk is returned; every query returns one
\* (answer, chunks) pair.
C9_QueryStateMachine ==
    ret.op = "query" =>
        /\ pc = "done"
        /\ ~ret.raised
        /\ ret.answer # <<>>
        /\ IF Len(store) > 0 /\ ret.retrieved # <<>>
           THEN /\ Cardinality(Positions(ret.trace, "chat")) = 1
                /\ \A c \in Positions(ret.trace, "chat") :
                     /\ Positions(ret.trace, "search") # {}
                     /\ \A s \in Positions(ret.trace, "search") \cup
                                 Positions(ret.trace, "embed") \cup
                                 Positions(ret.trace, "engine") : s < c
                /\ ret.documents = ret.retrieved
                /\ ret.context = ContextInOrder(ret.retrieved)
           ELSE /\ Positions(ret.trace, "chat") = {}
                /\ ret.documents = <<>>

\* a query whose retrieval ranked the second stored chunk first
C9_Witness ==
    /\ ret.op = "query"
    /\ Len(store) = 2
    /\ store[1].doc # store[2].doc
    /\ ret.documents = <<store[2].doc, store[1].doc>>
    /\ Cardinality(Positions(ret.trace, "chat")) = 1

\* C10: with citations requested the answer is the generated text followed by
\* the sources section of the retrieved chunks, without them it is the
\* generated text alone; the "no documents" and "no results" answers carry
\* no sources section.
C10_CitationsAppended ==
    ret.op = "query" =>
        IF Positions(ret.trace, "chat") # {}
        THEN IF ret.include_citations
             THEN /\ ret.answer = ret.generated \o CreateSourcesSection(ret.retrieved)
                  /\ StartsWith(CreateSourcesSection(ret.retrieved), CitationText.SourcesHeader)
             ELSE ret.answer = ret.generated
        ELSE /\ ret.answer \in {RagText.NoDocumentsMessage, RagText.NoResultsMessage}
             /\ ~Contains(ret.answer, SourcesWord)

\* the stripped text of the primary chat model followed by the sources of
\* two files
C10_Witness ==
    /\ ret.op = "query"
    /\ ret.include_citations
    /\ ret.generated = <<"Y","e","s",".">>
    /\ Len(ret.retrieved) = 2
    /\ ret.retrieved[1].metadata.filename # ret.retrieved[2].metadata.filename
    /\ Len(ret.answer) > Len(ret.generated) + Len(CitationText.SourcesHeader)

\* ------------------------------------------------------------------------
\* Vector store
\* ------------------------------------------------------------------------

\* the filenames of the chunks a collection holds
StoredFilenames(st) ==
    {st[i].doc.metadata.filename : i \in 1..Len(st)}

\* C11: an add_documents call that returns for N chunks returns N ids and
\* raises the count by N, the chunks are appended as passed, also when the
\* collection already holds an equal chunk, and what was stored stays; an
\* add of [] returns [] and changes nothing; a clear that returns leaves the
\* count 0; no other operation changes the count. The count is therefore
\* the number of chunks added since the last clear.
C11_CountFollowsAddAndClear ==
    [][/\ (ret'.op = "add_documents" /\ ~ret'.raised) =>
            /\ Len(ret'.value) = Len(ret'.input)
            /\ GetDocumentCount(Returned, store')
                 = GetDocumentCount(Returned, store) + Len(ret'.input)
            /\ SubSeq(store', 1, Len(store)) = store
            /\ \A i \in 1..Len(ret'.input) :
                   store'[Len(store) + i].doc = ret'.input[i]
            /\ (ret'.input = <<>> => ret'.value = <<>> /\ store' = store)
       /\ (ret'.op = "clear" /\ ~ret'.raised) =>
            GetDocumentCount(Returned, store') = 0
       /\ (ret'.op \notin {"add_documents", "clear"}) =>
            GetDocumentCount(Returned, store') = GetDocumentCount(Returned, store)
      ]_vars

\* two equal chunks were added in one call and both are stored
C11_Witness ==
    /\ ret.op = "add_documents"
    /\ ~ret.raised
    /\ Len(ret.input) = 2
    /\ ret.input[1] = ret.input[2]
    /\ Len(ret.value) = 2
    /\ GetDocumentCount(Returned, store) = 2

\* C12: when the collection can be read, get_indexed_files returns the
\* filenames of the stored chunks, each once, in ascending order; for an
\* empty collection it returns [].
C12_IndexedFilesDistinctSorted ==
    (ret.op = "get_indexed_files" /\ ret.error = <<>>) =>
        /\ {ret.value[i] : i \in 1..Len(ret.value)} = StoredFilenames(store)
        /\ \A i \in 1..(Len(ret.value) - 1) : StrLess(ret.value[i], ret.value[i + 1])
        /\ (store = <<>> => ret.value = <<>>)

\* two chunks of one file are stored and the file is listed once
C12_Witness ==
    /\ ret.op = "get_indexed_files"
    /\ ret.error = <<>>
    /\ Len(store) = 2
    /\ store[1].doc.metadata.filename = store[2].doc.metadata.filename
    /\ Len(ret.value) = 1

C14_ConstructionAttaches ==
    [][ret'.op = "__init__" =>
          /\ store' = store
          /\ GetDocumentCount(Returned, store') = GetDocumentCount(Returned, store)
          /\ IndexedFiles(store', Returned) = IndexedFiles(store, Returned)
      ]_vars

\* an instance was constructed over a collection of two chunks
C14_Witness ==
    /\ ret.op = "__init__"
    /\ ~ret.raised
    /\ GetDocumentCount(Returned, store) = 2

\* ------------------------------------------------------------------------
\* Ingestion
\* ------------------------------------------------------------------------

\* the file name an ingest_file call is about: the filename argument, or
\* the path when no filename is given
NameOfCall(f) ==
    IF f.filename # <<>> THEN f.filename ELSE f.file_path

\* the call named a file and its content was read
ContentWasRead(f) ==
    \/ f.file_path # <<>> /\ f.readable
    \/ f.file_path = <<>> /\ f.has_obj /\ f.filename # <<>>

\* C15: is_supported is true exactly for the names whose extension is pdf,
\* docx, txt, md or csv in any letter case; ingest_file on a file that was
\* read and whose name has another extension, or none, raises "Unsupported
\* file type" and runs no parser.
C15_UnsupportedExtensionRejected ==
    /\ ret.op = "is_supported" =>
          (ret.value <=> ret.input \in SupportedNames \cup {<<"i","n","/","a",".","p","d","f">>})
    /\ (/\ ret.op = "ingest_file"
        /\ ContentWasRead(ret.input)
        /\ NameOfCall(ret.input) \in UnsupportedNames \cup {<<"v",".","1","/","x">>}) =>
          /\ ret.raised
          /\ StartsWith(ret.error, MsgUnsupported)
          /\ ret.trace = <<>>
          /\ ret.value = <<>>

\* an uploaded x.exe with readable text in it was rejected
C15_Witness ==
    /\ ret.op = "ingest_file"
    /\ ret.input.has_obj
    /\ ret.input.filename = <<"x",".","e","x","e">>
    /\ ret.input.content.ok
    /\ ret.input.content.units # <<>>
    /\ ret.raised
    /\ StartsWith(ret.error, MsgUnsupported)

\* the chunks of the files of a batch that ingest alone, in input order
ChunksOfBatch(input) ==
    Flatten([i \in 1..Len(input.file_paths) |->
                IngestFile(PathInput(input.file_paths[i])).documents])
      \o Flatten([i \in 1..Len(input.file_objects) |->
                    IngestFile(ObjectInput(input.file_objects[i])).documents])

\* the (filename, error) pairs of the files of a batch that fail alone
FailuresOfBatch(input) ==
    LET Pair(name, r) == IF r.raised THEN <<<<name, r.error>>>> ELSE <<>>
    IN  Flatten([i \in 1..Len(input.file_paths) |->
                    Pair(input.file_paths[i].file_path,
                         IngestFile(PathInput(input.file_paths[i])))])
          \o Flatten([i \in 1..Len(input.file_objects) |->
                        Pair(input.file_objects[i].filename,
                             IngestFile(ObjectInput(input.file_objects[i])))])

\* C16: ingest_multiple returns a pair: the chunks of the files that were
\* ingested, in input order, and the (filename, error) pairs of the files
\* that failed; a caller can unpack the result into two names.
C16_BatchReturnsChunksAndFailures ==
    /\ ret.op = "ingest_multiple" =>
          /\ ret.value.type = "tuple"
          /\ Len(ret.value.items) = 2
          /\ ret.value.items[1] = ChunksOfBatch(ret.input)
          /\ ret.value.items[2] = FailuresOfBatch(ret.input)
    /\ ret.op = "unpack" => ~ret.raised

\* pdf, docx, txt, md, csv
Filetypes ==
    {<<"p","d","f">>, <<"d","o","c","x">>, <<"t","x","t">>, <<"m","d">>,
     <<"c","s","v">>}

\* C17: the chunks of one ingested file all carry the file's name and one
\* filetype, the filetype is one of pdf, docx, txt, md, csv whatever the
\* letter case of the extension, and only chunks of filetype pdf carry a
\* page.
C17_ChunkMetadataUniform ==
    (ret.op = "ingest_file" /\ ~ret.raised) =>
        \A i \in 1..Len(ret.value) :
            /\ ret.value[i].metadata.filename
                 = (IF ret.input.filename # <<>> THEN ret.input.filename
                    ELSE PathName(ret.input.file_path))
            /\ ret.value[i].metadata.filetype = ret.value[1].metadata.filetype
            /\ ret.value[i].metadata.filetype \in Filetypes
            /\ ret.value[i].metadata.filetype # <<"p","d","f">> =>
                  ret.value[i].metadata.page = <<>>

\* the page of a chunk
PageOf(chunk) ==
    chunk.metadata.page[1]

\* C18: the chunks of a PDF are tagged with the 1-based number of the page
\* their text comes from, also when the page is split into several chunks
\* and when pages before it have no text; a page with text gives at least
\* one chunk, a page without text none, and the chunks are in page order.
C18_PdfChunksCarryTheirPage ==
    (ret.op = "ingest_file" /\ ~ret.raised /\ ret.trace = <<"_parse_pdf">>) =>
        LET pages == ret.input.content.units
        IN  /\ \A i \in 1..Len(ret.value) :
                  /\ ret.value[i].metadata.page # <<>>
                  /\ PageOf(ret.value[i]) \in 1..Len(pages)
                  /\ ret.value[i].page_content # <<>>
                  /\ Contains(pages[PageOf(ret.value[i])], ret.value[i].page_content)
            /\ \A i, j \in 1..Len(ret.value) :
                  i < j => PageOf(ret.value[i]) <= PageOf(ret.value[j])
            /\ \A p \in 1..Len(pages) :
                  (\A n \in 1..Len(pages[p]) : pages[p][n] \in Whitespace)
                    <=> ~\E i \in 1..Len(ret.value) : PageOf(ret.value[i]) = p

\* a PDF whose first page is blank and whose second page gave two chunks
C18_Witness ==
    /\ ret.op = "ingest_file"
    /\ ~ret.raised
    /\ ret.trace = <<"_parse_pdf">>
    /\ ret.input.content.units = <<<<" ">>, <<"c","d","e","f","g">>>>
    /\ Len(ret.value) >= 2
    /\ \A i \in 1..Len(ret.value) : PageOf(ret.value[i]) = 2

\* ------------------------------------------------------------------------
\* Page ranges
\* ------------------------------------------------------------------------

\* the pages start..end; the single page end when start is 0
PagesOfItem(start, end) ==
    IF start = 0 THEN <<end>> ELSE [k \in 1..(end - start + 1) |-> start + k - 1]

\* int(c) for a digit
DigitValue(c) ==
    (CHOOSE d \in 1..10 : Digits[d] = c) - 1

\* reading a range string from position i: start is the number before the
\* dash of the item being read (0 when it has none), number the number
\* being read, pages the pages of the items read so far
RECURSIVE ExpandLoop(_, _, _, _, _)
ExpandLoop(text, i, start, number, pages) ==
    IF i > Len(text) THEN pages \o PagesOfItem(start, number)
    ELSE IF text[i] = ","
    THEN ExpandLoop(text, i + 1, 0, 0, pages \o PagesOfItem(start, number))
    ELSE IF text[i] = " "
    THEN ExpandLoop(text, i + 1, start, number, pages)
    ELSE IF text[i] = "U+2013"
    THEN ExpandLoop(text, i + 1, number, 0, pages)
    ELSE ExpandLoop(text, i + 1, start, 10 * number + DigitValue(text[i]), pages)

\* the page numbers a range string stands for
ExpandPageRanges(text) ==
    IF text = <<>> THEN <<>> ELSE ExpandLoop(text, 1, 0, 0, <<>>)

\* C19: expanding the string _format_page_ranges gives for a sorted list of
\* distinct page numbers reproduces the list; the empty list gives the
\* empty string.
C19_PageRangesRoundTrip ==
    ret.op = "_format_page_ranges" =>
        /\ ExpandPageRanges(ret.value) = ret.input
        /\ (ret.input = <<>> <=> ret.value = <<>>)

\* a list with a run, a single page and two-digit numbers
C19_Witness ==
    /\ ret.op = "_format_page_ranges"
    /\ ret.input = <<1, 2, 3, 5, 9, 10, 11>>
    /\ ret.value = <<"1","U+2013","3",","," ","5",","," ","9","U+2013","1","1">>

\* the maximal runs of consecutive numbers of a set, as <<first, last>>
MaximalRuns(S) ==
    {run \in S \X S :
        /\ run[1] <= run[2]
        /\ \A n \in run[1]..run[2] : n \in S
        /\ (run[1] - 1) \notin S
        /\ (run[2] + 1) \notin S}

\* the text of the runs of a set in ascending order: "first-last" with an
\* en dash for a run of two pages or more, the number for a single page,
\* with ", " between them
TextOfRuns(S) ==
    LET firsts == SortedInts({run[1] : run \in MaximalRuns(S)})
        LastOf(first) == (CHOOSE run \in MaximalRuns(S) : run[1] = first)[2]
        Item(first) ==
            IF LastOf(first) = first THEN IntToStr(first)
            ELSE IntToStr(first) \o <<"U+2013">> \o IntToStr(LastOf(first))
    IN  Join(<<",", " ">>, [n \in 1..Len(firsts) |-> Item(firsts[n])])

\* C20: the string of _format_page_ranges has one item for each maximal run
\* of consecutive pages and no other, "start-end" with an en dash for a run
\* of two pages or more and the number alone otherwise, in ascending order
\* with ", " between the items.
C20_MinimalRuns ==
    ret.op = "_format_page_ranges" =>
        ret.value = TextOfRuns({ret.input[i] : i \in 1..Len(ret.input)})

\* two runs and a single page between them
C20_Witness ==
    /\ ret.op = "_format_page_ranges"
    /\ ret.input = <<1, 2, 3, 5, 7, 8>>
    /\ ret.value = <<"1","U+2013","3",","," ","5",","," ","7","U+2013","8">>

\* the names of the files of a chunk list and the pages cited of one file
FilenamesOf(documents) ==
    {documents[i].metadata.filename : i \in 1..Len(documents)}

PagesCited(documents, filename) ==
    {p \in 1..MaxPage :
        \E i \in 1..Len(documents) :
           /\ documents[i].metadata.filename = filename
           /\ documents[i].metadata.page = <<p>>}

\* the bullet line expected of one file
ExpectedLine(documents, filename) ==
    IF PagesCited(documents, filename) = {}
    THEN <<"U+2022", " ">> \o filename
    ELSE <<"U+2022", " ">> \o filename \o <<" ","(","p","a","g","e","s"," ">>
           \o TextOfRuns(PagesCited(documents, filename)) \o <<")">>

\* the expected lines, one per file, the files ordered by Before
ExpectedCitations(documents, Before(_, _)) ==
    LET files == FilenamesOf(documents)
        FileAt(n) == CHOOSE f \in files :
                        Cardinality({g \in files : Before(g, f)}) = n - 1
    IN  Join(<<"\n">>,
             [n \in 1..Cardinality(files) |-> ExpectedLine(documents, FileAt(n))])

\* alphabetical order: that of the letters, whatever their case
AlphabeticallyBefore(a, b) ==
    StrLess(Lower(a), Lower(b))

\* C21 as stated: format_citations gives one bullet line per distinct
\* filename, in alphabetical order of the filenames whatever the order of
\* the chunks, with "(pages ...)" and the collapsed distinct pages of the
\* file when a chunk of it has a page, the bare filename otherwise.
C21_OneLinePerFileAlphabetical ==
    ret.op = "format_citations" =>
        ret.value = ExpectedCitations(ret.input, AlphabeticallyBefore)

\* C21 amended: format_citations gives one bullet line per distinct
\* filename, in ascending order of Python's str comparison (by code point,
\* so every upper-case letter sorts before every lower-case letter; for
\* names of one letter case this is the alphabetical order), whatever the
\* order of the chunks, with "(pages ...)" and the collapsed distinct pages
\* of the file when a chunk of it has a page, the bare filename otherwise.
C21_OneLinePerFileSorted ==
    ret.op = "format_citations" =>
        ret.value = ExpectedCitations(ret.input, StrLess)

\* chunks retrieved in descending order of file name, the pages of one
\* file twice and out of order, the other file without a page
C21_Witness ==
    /\ ret.op = "format_citations"
    /\ Len(ret.input) = 3
    /\ ret.input[1].metadata.filename = <<"c",".","m","d">>
    /\ ret.input[1].metadata.page = <<>>
    /\ ret.input[2].metadata = [filename |-> FileA, filetype |-> "pdf", page |-> <<2>>]
    /\ ret.input[3].metadata = [filename |-> FileA, filetype |-> "pdf", page |-> <<1>>]
    /\ ret.value = <<"U+2022"," ","a",".","p","d","f"," ","(","p","a","g","e","s"," ",
                     "1","U+2013","2",")","\n","U+2022"," ","c",".","m","d">>

\* C22: create_sources_section returns the empty string for no chunks; for
\* a non-empty chunk list the result starts with the separator
\* "\n\n---\n\n", has a "Sources" header and names every cited file.
C22_SourcesSectionWithSeparator ==
    ret.op = "create_sources_section" =>
        IF ret.input = <<>> THEN ret.value = <<>>
        ELSE /\ StartsWith(ret.value, <<"\n","\n","-","-","-","\n","\n">>)
             /\ Contains(ret.value, <<"S","o","u","r","c","e","s">>)
             /\ \A f \in FilenamesOf(ret.input) : Contains(ret.value, f)

\* the sum of the squares of seq[lo..hi]
RECURSIVE SumOfSquares(_, _, _)
SumOfSquares(seq, lo, hi) ==
    IF lo > hi THEN 0
    ELSE IF lo = hi THEN seq[lo] * seq[lo]
    ELSE SumOfSquares(seq, lo, (lo + hi) \div 2)
           + SumOfSquares(seq, (lo + hi) \div 2 + 1, hi)

\* a vector of unit L2 norm: the squares of its entries sum to 1
UnitNorm(vector) ==
    SumOfSquares(vector.entries, 1, Len(vector.entries)) = vector.over_sq

\* the texts between the blanks around a text
Trimmed(text) ==
    {SubSeq(text, i, j) : <<i, j>> \in
        {<<i, j>> \in (1..(Len(text) + 1)) \X (0..Len(text)) :
            /\ i <= j + 1
            /\ \A k \in 1..Len(text) : (k < i \/ k > j) => text[k] \in {" ", "\n", "\t"}
            /\ i <= j => (text[i] \notin {" ", "\n", "\t"}
                            /\ text[j] \notin {" ", "\n", "\t"})}}

\* two texts that differ only in letter case and in the blanks around them
SameUpToCaseAndMargins(a, b) ==
    \E ca \in Trimmed(a), cb \in Trimmed(b) :
        /\ Len(ca) = Len(cb)
        /\ \A k \in 1..Len(ca) :
               \/ ca[k] = cb[k]
               \/ \E n \in 1..26 : {ca[k], cb[k]} = {UpperChars[n], LowerChars[n]}

\* a call of the offline embedding returned
OfflineReturned(r) ==
    r.op \in {"offline.embed_query", "offline.embed_documents"}

\* two calls, or one, give the same vector for texts that are the same up
\* to letter case and the blanks around them, on instances of one dimension
SameTextSameVector(first, second) ==
    (OfflineReturned(first) /\ OfflineReturned(second)
       /\ first.input.dimension = second.input.dimension) =>
        \A i \in 1..Len(first.input.texts), j \in 1..Len(second.input.texts) :
            SameUpToCaseAndMargins(first.input.texts[i], second.input.texts[j])
                => first.value[i] = second.value[j]

\* C23 as stated: the offline embedding is a function of the normalized
\* text, so that repeated calls of embed_query and embed_documents on a text
\* and calls on texts that differ only in letter case or in the blanks
\* around them return the identical vector, and every vector returned has
\* dimension entries and unit L2 norm, whatever the dimension.
C23_OfflinePureUnitVectors ==
    /\ [](OfflineReturned(ret) =>
             \A i \in 1..Len(ret.value) :
                /\ Len(ret.value[i].entries) = ret.input.dimension
                /\ UnitNorm(ret.value[i]))
    /\ [][SameTextSameVector(ret, ret') /\ SameTextSameVector(ret', ret')]_vars

\* C23 amended: as stated, but the vector has unit L2 norm for a dimension
\* of 32 or more only; for a smaller dimension no digest is taken and the
\* vector returned is the zero vector of dimension entries.
C23_OfflinePureUnitVectorsFrom32 ==
    /\ [](OfflineReturned(ret) =>
             \A i \in 1..Len(ret.value) :
                /\ Len(ret.value[i].entries) = ret.input.dimension
                /\ ret.input.dimension >= 32 => UnitNorm(ret.value[i])
                /\ ret.input.dimension < 32 =>
                      \A n \in 1..ret.input.dimension : ret.value[i].entries[n] = 0)
    /\ [][SameTextSameVector(ret, ret') /\ SameTextSameVector(ret', ret')]_vars

\* an instance of the configured dimension embedded two texts that differ
\* in letter case and in the blanks around them
C23_Witness ==
    /\ ret.op = "offline.embed_documents"
    /\ ret.input = [dimension |-> 1536,
                    texts |-> <<<<"H","i">>, <<" ","H","I","\n">>>>]
    /\ ret.value[1] = ret.value[2]
    /\ Len(ret.value[1].entries) = 1536
    /\ ret.value[1].entries[192] # 0
    /\ ret.value[1].entries[193] = 0

\* the keyword group an answer of the canned responder belongs to; the
\* generic answer and the apology belong to none
KeywordGroupOf(answer) ==
    IF answer \in {Responses.GenericResponse, Responses.ApologyResponse} THEN <<>> ELSE answer

\* C24: the canned responder selects its keyword group from the question
\* only: two prompts the orchestrator builds for the same question with
\* different retrieved documents get an answer of the same keyword group.
C24_GroupFromQuestionOnly ==
    [][(ret.op = "demo._call" /\ ret'.op = "demo._call"
          /\ ret.input.question = ret'.input.question)
         => KeywordGroupOf(ret.value) = KeywordGroupOf(ret'.value)]_vars

\* the answer expected for a question and a context when the groups, given
\* as <<keywords, answer>> in the order they are checked, are tested
\* against the lower-cased question
RECURSIVE FirstGroupAnswer(_, _, _)
FirstGroupAnswer(groups, question, context) ==
    IF groups = <<>>
    THEN IF Len(context) >= 50 THEN Responses.GenericResponse ELSE Responses.ApologyResponse
    ELSE IF \E word \in groups[1][1] : Contains(Lower(question), word)
    THEN groups[1][2]
    ELSE FirstGroupAnswer(Tail(groups), question, context)

\* the groups as the claim lists them
GroupsAsListed ==
    <<<<{<<"v","a","c","a","t","i","o","n">>, <<"p","t","o">>,
         <<"t","i","m","e","-","o","f","f">>, <<"l","e","a","v","e">>}, Responses.VacationResponse>>,
      <<{<<"s","a","l","e","s">>, <<"r","e","v","e","n","u","e">>,
         <<"q","u","a","r","t","e","r">>}, Responses.SalesResponse>>,
      <<{<<"l","e","a","s","e">>, <<"r","e","n","t">>, <<"t","e","n","a","n","t">>,
         <<"l","a","n","d","l","o","r","d">>}, Responses.LeaseResponse>>,
      <<{<<"r","i","s","k">>, <<"o","b","l","i","g","a","t","i","o","n">>,
         <<"c","o","m","p","l","i","a","n","c","e">>, <<"l","e","g","a","l">>}, Responses.RiskResponse>>,
      <<{<<"e","m","p","l","o","y","e","e">>, <<"s","t","a","f","f">>, <<"h","r">>,
         <<"h","a","n","d","b","o","o","k">>}, Responses.EmployeeResponse>>>>

\* the groups with "time off" written with a space and "q4" among the sales
\* words
GroupsWithQ4AndTimeOff ==
    [GroupsAsListed EXCEPT
        ![1] = <<{<<"v","a","c","a","t","i","o","n">>, <<"p","t","o">>,
                  <<"t","i","m","e"," ","o","f","f">>, <<"l","e","a","v","e">>},
                 Responses.VacationResponse>>,
        ![2] = <<{<<"s","a","l","e","s">>, <<"r","e","v","e","n","u","e">>, <<"q","4">>,
                  <<"q","u","a","r","t","e","r">>}, Responses.SalesResponse>>]

\* C28 as stated: _generate_response returns the fixed answer of the first
\* of the groups vacation/pto/time-off/leave, sales/revenue/quarter,
\* lease/rent/tenant/landlord, risk/obligation/compliance/legal,
\* employee/staff/hr/handbook that has a keyword in the lower-cased
\* question, and when none has, the generic answer for a context of at
\* least 50 characters and the apology otherwise.
C28_FirstGroupWins ==
    ret.op = "_generate_response" =>
        ret.value = FirstGroupAnswer(GroupsAsListed, ret.input.question, ret.input.context)

\* C28 amended: as stated, with the keywords "vacation", "pto", "time off"
\* (with a space) and "leave" for the first group and "sales", "revenue",
\* "q4" and "quarter" for the second.
C28_FirstGroupWinsWithQ4AndTimeOff ==
    ret.op = "_generate_response" =>
        ret.value = FirstGroupAnswer(GroupsWithQ4AndTimeOff, ret.input.question,
                                     ret.input.context)

\* a question with a word of the fourth and of the fifth group got the
\* answer of the fourth
C28_Witness ==
    /\ ret.op = "_generate_response"
    /\ ret.input.question = <<"H","R"," ","l","e","g","a","l">>
    /\ ret.value = Responses.RiskResponse

\* C30: get_document_count and get_indexed_files never raise; when the
\* collection cannot be read they return 0 and the empty list, and a query
\* whose count read fails, on an index that holds chunks too, returns the
\* "no documents indexed" message with no chunks, no exception, and neither
\* retrieval nor generation invoked
C30_ReadsNeverRaise ==
    /\ ret.op = "get_document_count" =>
          /\ ~ret.raised
          /\ ret.error # <<>> => ret.value = 0
          /\ ret.error = <<>> => ret.value = Len(store)
    /\ ret.op = "get_indexed_files" =>
          /\ ~ret.raised
          /\ ret.error # <<>> => ret.value = <<>>
    /\ (ret.op = "query" /\ ret.doc_count = 0) =>
          /\ ~ret.raised
          /\ ret.answer = RagText.NoDocumentsMessage
          /\ ret.documents = <<>>
          /\ ret.retrieved = <<>>
          /\ ret.generated = <<>>
          /\ ret.trace = <<"count">>
          /\ emb = NoCall
          /\ chat = NoCall

\* a query whose count read failed on an index that holds chunks
C30_Witness ==
    /\ ret.op = "query"
    /\ store # <<>>
    /\ ret.doc_count = 0
    /\ ret.answer = RagText.NoDocumentsMessage

\* C29: whenever a search compares a query vector with the stored vectors,
\* all of them come from one embedding path: the index never holds
\* primary-embedded chunks while the query, or a chunk added later, is
\* embedded by the offline fallback after the latch
C29_OneEmbeddingPath ==
    /\ \A i, j \in 1..Len(store) : store[i].vec.path = store[j].vec.path
    /\ (/\ ret.op \in {"similarity_search", "query"}
        /\ emb.op = "embed_query"
        /\ ~emb.raised
        /\ ~ret.raised) =>
          \A i \in 1..Len(store) : store[i].vec.path = emb.value.path

AbsorbedFailure(t) ==
    threads[t].pc = "latch" \/ threads[t].latch_over # "none"

\* C26: with concurrent callers on one wrapper instance a connectivity
\* failure of the primary is absorbed once: at most one call of the
\* embeddings wrapper and at most one call of the chat wrapper finds the
\* primary failing and assigns the flag, no call assigns a flag that is
\* already set, and no call invokes the primary while the flag is set
C26_FailureAbsorbedOncePerInstance ==
    /\ Cardinality({t \in Threads :
                       threads[t].op = "_call" /\ AbsorbedFailure(t)}) <= 1
    /\ Cardinality({t \in Threads :
                       threads[t].op # "_call" /\ AbsorbedFailure(t)}) <= 1
    /\ \A t \in Threads :
          /\ threads[t].latch_over # "set"
          /\ threads[t].at_primary # "set"

\* what a read whose engine call succeeded returns, given the chunks st of
\* the collection: their number, their filenames without repetition in
\* ascending order, or min(top_k, number) of them
ReadObserves(call, st) ==
    IF call.op = "get_document_count" THEN call.value = Len(st)
    ELSE IF call.op = "get_indexed_files"
    THEN /\ {call.value[i] : i \in 1..Len(call.value)} =
               {st[i].doc.metadata.filename : i \in 1..Len(st)}
         /\ \A i \in 1..Len(call.value) - 1 :
               StrLess(call.value[i], call.value[i + 1])
    ELSE /\ Len(call.value) = IF Len(st) < ConfigTopK THEN Len(st) ELSE ConfigTopK
         /\ \A i \in 1..Len(call.value) :
               \E j \in 1..Len(st) : st[j].doc = call.value[i]

\* C27: mutations and reads of concurrent callers interleave without
\* corrupting the index: a read whose engine call succeeds does not raise
\* and returns the chunks of the collection as they are at that moment,
\* also while a clear of another caller is between its delete and its
\* re-initialization, and when every caller has returned the collection
\* holds the chunks added after the last clear that returned
C27_InterleavingKeepsIndex ==
    /\ []((\A t \in Threads : threads[t].pc = "idle") =>
            [i \in 1..Len(store) |-> store[i].doc] = added)
    /\ [][\A t \in Threads :
            (/\ threads[t].pc = "read"
             /\ threads'[t].pc = "done"
             /\ threads'[t].engine.ok) =>
               /\ ~threads'[t].raised
               /\ ReadObserves(threads'[t], store)]_vars

====
